---- MODULE Spec2Model ----
(***************************************************************************)
(* NodeSet dashboard backend: the reward-efficiency engine.                *)
(*                                                                         *)
(* The duty-record store (table validators_summary) is a set of rows, one  *)
(* per (val_id, epoch).  Every endpoint of routers/nodeset.py is one       *)
(* action: it reads the store and leaves its reply in `response`.  The     *)
(* SQL each endpoint sends is translated clause by clause (WHERE, GROUP    *)
(* BY, HAVING, ORDER BY, LIMIT); clickhouse_service.execute_query is the   *)
(* collaborator that yields the rows of the query.                         *)
(*                                                                         *)
(* Percentages are exact rationals [num, den] standing for num*100/den     *)
(* (the code computes them in floating point).  A nullable column holds    *)
(* <<>> for SQL NULL and <<x>> for the value x.                            *)
(***************************************************************************)
EXTENDS Integers, Sequences, FiniteSets, TLC

VARIABLES store, performance_data, response, request,
          now, disk, cache, cache_timestamps, file_mod_times, service, enhanced,
          analytics_file, submitted
\* the file loader's three dictionaries
loader == <<cache, cache_timestamps, file_mod_times>>
\* the clock, the files and the in-process state of the file-backed services
\* the analytics document on disk, and every (session, date) ever submitted
tracking == <<analytics_file, submitted>>
host == <<now, disk, loader, service, enhanced, tracking>>
\* the state outside the store, the performance file and the last reply
aux == <<request, host>>
vars == <<store, performance_data, response, aux>>

-----------------------------------------------------------------------------
(* SQL values *)

SqlNull == <<>>
Some(x) == <<x>>
IsNull(x) == x = <<>>
\* COALESCE(x, 0)
Coalesce0(x) == IF x = <<>> THEN 0 ELSE x[1]
\* x = c in a WHERE / CASE WHEN: NULL never equals anything
SqlEq(x, c) == x # <<>> /\ x[1] = c
\* x > c
SqlGt(x, c) == x # <<>> /\ x[1] > c

RECURSIVE SumFn(_)
\* SUM over a group: f maps each row of the group to its term
SumFn(f) ==
    IF DOMAIN f = {} THEN 0
    ELSE LET x == CHOOSE y \in DOMAIN f : TRUE
         IN  f[x] + SumFn([y \in DOMAIN f \ {x} |-> f[y]])

Min2(a, b) == IF a <= b THEN a ELSE b
Max2(a, b) == IF a >= b THEN a ELSE b

\* ORDER BY under a strict total order Less: the i-th row has i-1 rows before it
SortSet(S, Less(_, _)) ==
    [i \in 1..Cardinality(S) |->
        CHOOSE x \in S : Cardinality({y \in S : Less(y, x)}) = i - 1]

\* LIMIT n
Limit(seq, n) == SubSeq(seq, 1, Min2(n, Len(seq)))

Range(seq) == {seq[i] : i \in DOMAIN seq}

-----------------------------------------------------------------------------
(* The store *)

\* operator names (val_nos_name), in their string order
OperatorNames == <<"Operator_0xA", "Operator_0xB">>
Operators == Range(OperatorNames)
NameRank(n) == CHOOSE i \in DOMAIN OperatorNames : OperatorNames[i] = n

\* the operator a validator's key is registered to
OperatorOf(v) == IF v = 1 THEN "Operator_0xB" ELSE "Operator_0xA"

ExcludedStatuses == {"exited", "withdrawal_possible", "withdrawal_done"}

\* one row of validators_summary
Row(v, e, name, status, att, earned, missed, penalty) ==
    [val_id |-> v, epoch |-> e, val_nos_name |-> name, val_status |-> status,
     att_happened |-> att, att_earned_reward |-> earned,
     att_missed_reward |-> missed, att_penalty |-> penalty,
     is_proposer |-> Some(0), block_proposed |-> SqlNull,
     propose_earned_reward |-> SqlNull,
     is_sync |-> Some(0), sync_earned_reward |-> SqlNull,
     sync_missed_reward |-> SqlNull]

\* rows with a non-null operator
Tracked(rows) == {r \in rows : r.val_nos_name # SqlNull}

\* SELECT MAX(epoch) FROM validators_summary WHERE val_nos_name IS NOT NULL
HasEpochData(rows) == Tracked(rows) # {}
LatestEpoch(rows) ==
    CHOOSE e \in {r.epoch : r \in Tracked(rows)} :
        \A r \in Tracked(rows) : r.epoch <= e
\* SELECT MIN(epoch) FROM validators_summary WHERE val_nos_name IS NOT NULL
MinAvailableEpoch(rows) ==
    CHOOSE e \in {r.epoch : r \in Tracked(rows)} :
        \A r \in Tracked(rows) : r.epoch >= e

NoResponse == [endpoint |-> "none", status |-> 0]
\* no request between two of its queries
NoRequest == [step |-> "idle"]
\* except Exception -> HTTPException(500, "Database query failed: ...")
QueryFailed(ep) == [endpoint |-> ep, status |-> 500]

-----------------------------------------------------------------------------
(* Consecutive-miss detector: validators_down, validators_down/extended *)

\* CASE WHEN att_happened = 0 OR att_happened IS NULL THEN 1 ELSE 0 END
MissedAttestationNullAsHit(r) == IF SqlEq(r.att_happened, 0) THEN 1 ELSE 0
MissedAttestation(r) ==
    IF SqlEq(r.att_happened, 0) \/ IsNull(r.att_happened) THEN 1 ELSE 0

\* CTE validator_epochs
ValidatorEpochs(rows, start_epoch, latest_epoch) ==
    {r \in rows : r.epoch >= start_epoch /\ r.epoch <= latest_epoch
                  /\ r.val_nos_name # SqlNull}

\* CTE active_validators: SELECT DISTINCT val_id ... WHERE epoch = latest
ActiveValidators(ve, latest_epoch) ==
    {r.val_id : r \in {x \in ve : x.epoch = latest_epoch
                                  /\ x.val_status \notin ExcludedStatuses}}

\* CTE consecutive_misses: the groups (val_id, val_nos_name) that pass HAVING
ConsecutiveMissesAtLeastOne(ve, latest_epoch, k) ==
    LET joined == {r \in ve : r.val_id \in ActiveValidators(ve, latest_epoch)}
        keys   == {<<r.val_id, r.val_nos_name>> : r \in joined}
        grp(g) == {r \in joined : r.val_id = g[1] /\ r.val_nos_name = g[2]}
    IN  {g \in keys :
            SumFn([r \in grp(g) |-> MissedAttestation(r)]) = Cardinality(grp(g))}
ConsecutiveMisses(ve, latest_epoch, k) ==
    LET joined == {r \in ve : r.val_id \in ActiveValidators(ve, latest_epoch)}
        keys   == {<<r.val_id, r.val_nos_name>> : r \in joined}
        grp(g) == {r \in joined : r.val_id = g[1] /\ r.val_nos_name = g[2]}
    IN  {g \in keys :
            /\ Cardinality(grp(g)) = k
            /\ SumFn([r \in grp(g) |-> MissedAttestation(r)]) = k}

\* ORDER BY val_nos_name, val_id
DownOrder(a, b) ==
    \/ NameRank(a.operator) < NameRank(b.operator)
    \/ a.operator = b.operator /\ a.validator_id < b.validator_id

\* the whole query and the transformation of its rows
DownQuery(rows, start_epoch, latest_epoch, k, limit) ==
    LET ve   == ValidatorEpochs(rows, start_epoch, latest_epoch)
        hits == ConsecutiveMisses(ve, latest_epoch, k)
        out  == {[operator |-> g[2][1], validator_id |-> g[1],
                  latest_epoch |-> latest_epoch, start_epoch |-> start_epoch,
                  consecutive_misses |-> k] : g \in hits}
    IN  Limit(SortSet(out, DownOrder), limit)

\* the window of the fixed endpoint: latest, latest-1, latest-2
FixedDownEpochs == 3

\* GET /validators_down
ValidatorsDownReply(rows, limit) ==
    IF ~HasEpochData(rows) THEN QueryFailed("validators_down")
    ELSE LET latest_epoch == LatestEpoch(rows)
             start_epoch  == latest_epoch - 2
         IN  [endpoint |-> "validators_down", status |-> 200,
              epochs_back |-> FixedDownEpochs, limit |-> limit,
              test_operator |-> SqlNull,
              results |-> DownQuery(rows, start_epoch, latest_epoch,
                                    FixedDownEpochs, limit)]

\* the test_operator branch: mock rows built from the operator's validators
TestValidators(rows, test_operator, latest_epoch) ==
    {r.val_id : r \in {x \in rows :
        /\ SqlEq(x.val_nos_name, test_operator)
        /\ x.epoch = latest_epoch
        /\ x.val_status \notin ExcludedStatuses}}

TestOrder(a, b) == a.validator_id < b.validator_id

\* GET /validators_down/extended
ValidatorsDownExtendedReply(rows, epochs_back, limit, test_operator) ==
    IF ~HasEpochData(rows) THEN QueryFailed("validators_down/extended")
    ELSE LET latest_epoch == LatestEpoch(rows)
             start_epoch  == latest_epoch - epochs_back + 1
         IN  IF test_operator # SqlNull
             THEN LET ids == TestValidators(rows, test_operator[1], latest_epoch)
                      out == {[operator |-> test_operator[1], validator_id |-> v,
                               latest_epoch |-> latest_epoch,
                               start_epoch |-> start_epoch,
                               consecutive_misses |-> epochs_back] : v \in ids}
                  IN  IF ids = {} THEN QueryFailed("validators_down/extended")
                      ELSE [endpoint |-> "validators_down/extended",
                            status |-> 200, epochs_back |-> epochs_back,
                            limit |-> limit, test_operator |-> test_operator,
                            results |-> Limit(SortSet(out, TestOrder), limit)]
             ELSE [endpoint |-> "validators_down/extended", status |-> 200,
                   epochs_back |-> epochs_back, limit |-> limit,
                   test_operator |-> SqlNull,
                   results |-> DownQuery(rows, start_epoch, latest_epoch,
                                         epochs_back, limit)]

-----------------------------------------------------------------------------
(* Percentages *)

\* num * 100.0 / den, kept exact; den > 0
Pct(num, den) == [num |-> num, den |-> den]
\* the ELSE 0.0 branch of every guarded division
ZeroPct == [num |-> 0, den |-> 1]
PctEq(a, b) == a.num * b.den = b.num * a.den
PctLess(a, b) == a.num * b.den < b.num * a.den
PctLeq(a, b) == a.num * b.den <= b.num * a.den
\* the percentage p equals the whole number n
PctIs(p, n) == p.num * 100 = n * p.den

\* ORDER BY key DESC: every listing of S in non-increasing key order (rows
\* with equal keys come in an order the database does not promise)
DescListings(S, Key(_)) ==
    {s \in [1..Cardinality(S) -> S] :
        /\ \A i, j \in DOMAIN s : i # j => s[i] # s[j]
        /\ \A i, j \in DOMAIN s : i < j => PctLeq(Key(s[j]), Key(s[i]))}

-----------------------------------------------------------------------------
(* Duty aggregator: the flags of CTE validator_data *)

IsActiveDuty(r) == IF r.val_status = "active_ongoing" THEN 1 ELSE 0
IsPending(r) ==
    IF r.val_status \in {"pending_initialized", "pending_queued"} THEN 1 ELSE 0
\* CASE WHEN att_happened = 1 THEN 1 ELSE 0 END: the flag without the status
SuccessfulAttestationAnyStatus(r) == IF SqlEq(r.att_happened, 1) THEN 1 ELSE 0
SuccessfulAttestation(r) ==
    IF r.val_status = "active_ongoing" /\ SqlEq(r.att_happened, 1) THEN 1 ELSE 0
\* active but no attestation: att_happened = 0 OR att_happened IS NULL
ActiveMissedAttestationNullAsHit(r) ==
    IF r.val_status = "active_ongoing" /\ SqlEq(r.att_happened, 0) THEN 1 ELSE 0
ActiveMissedAttestation(r) ==
    IF r.val_status = "active_ongoing"
       /\ (SqlEq(r.att_happened, 0) \/ IsNull(r.att_happened)) THEN 1 ELSE 0

\* SUM(CASE WHEN is_active_duty = 1 THEN COALESCE(col, 0) ELSE 0 END)
\* SUM(COALESCE(col, 0)): the sum without the is_active_duty guard
ActiveEarnedAnyStatus(r) == Coalesce0(r.att_earned_reward)
ActiveEarned(r) == IF IsActiveDuty(r) = 1 THEN Coalesce0(r.att_earned_reward) ELSE 0
ActivePenalty(r) == IF IsActiveDuty(r) = 1 THEN Coalesce0(r.att_penalty) ELSE 0
ActiveTheoretical(r) ==
    IF IsActiveDuty(r) = 1
    THEN Coalesce0(r.att_earned_reward) + Coalesce0(r.att_missed_reward) ELSE 0

\* (end_epoch - start_epoch + 1) as epochs_in_period
EpochsInPeriodExclusive(start_epoch, end_epoch) == end_epoch - start_epoch
EpochsInPeriod(start_epoch, end_epoch) == end_epoch - start_epoch + 1

\* net_rewards = total_actual_rewards - total_penalties
NetRewardsFloored(total_actual_rewards, total_penalties) ==
    Max2(0, total_actual_rewards - total_penalties)
NetRewards(total_actual_rewards, total_penalties) ==
    total_actual_rewards - total_penalties

\* the counts and sums both corrected queries take over one operator's rows
DutyAggregate(grp, start_epoch, end_epoch) ==
    LET validator_count == Cardinality({r.val_id : r \in grp})
        epochs_in_period == EpochsInPeriod(start_epoch, end_epoch)
        total_actual_rewards == SumFn([r \in grp |-> ActiveEarned(r)])
        total_penalties == SumFn([r \in grp |-> ActivePenalty(r)])
    IN  [validator_count |-> validator_count,
         active_duty_periods |-> SumFn([r \in grp |-> IsActiveDuty(r)]),
         successful_attestations |-> SumFn([r \in grp |-> SuccessfulAttestation(r)]),
         missed_attestations |-> SumFn([r \in grp |-> ActiveMissedAttestation(r)]),
         pending_periods |-> SumFn([r \in grp |-> IsPending(r)]),
         total_actual_rewards |-> total_actual_rewards,
         total_penalties |-> total_penalties,
         net_rewards |-> NetRewards(total_actual_rewards, total_penalties),
         total_data_points |-> Cardinality(grp),
         epochs_in_period |-> epochs_in_period,
         expected_total_epochs |-> validator_count * epochs_in_period]

-----------------------------------------------------------------------------
(* calculate_corrected_theoretical_performance *)

\* CTE validator_data: the operator's rows of the period, terminal statuses out
CorrectedData(rows, operator_name, start_epoch, end_epoch) ==
    {r \in rows : /\ r.epoch >= start_epoch /\ r.epoch <= end_epoch
                  /\ SqlEq(r.val_nos_name, operator_name)
                  /\ r.val_status \notin ExcludedStatuses}

\* the rows AVG(CASE WHEN successful_attestation = 1 AND att_earned_reward
\* IS NOT NULL THEN att_earned_reward END) averages over
AvgRewardRows(grp) ==
    {r \in grp : SuccessfulAttestation(r) = 1 /\ ~IsNull(r.att_earned_reward)}

CorrectedError(operator_name, start_epoch, end_epoch, msg) ==
    [endpoint |-> "corrected", status |-> "error", error |-> msg,
     operator |-> operator_name, start_epoch |-> start_epoch,
     end_epoch |-> end_epoch]

CorrectedReply(rows, operator_name, start_epoch, end_epoch) ==
    LET grp == CorrectedData(rows, operator_name, start_epoch, end_epoch)
    IN  IF grp = {}
        THEN CorrectedError(operator_name, start_epoch, end_epoch,
                            "No data found for operator")
        ELSE IF AvgRewardRows(grp) = {}
        \* the average comes back as NULL and float() of it raises
        THEN CorrectedError(operator_name, start_epoch, end_epoch,
                            "Calculation failed")
        ELSE
        LET a == DutyAggregate(grp, start_epoch, end_epoch)
            avg_sum == SumFn([r \in AvgRewardRows(grp) |-> r.att_earned_reward[1]])
            avg_cnt == Cardinality(AvgRewardRows(grp))
            \* max_possible_rewards = active_duty_periods * avg, as a fraction
            max_num == a.active_duty_periods * avg_sum
        IN  [endpoint |-> "corrected", status |-> "ok",
             operator |-> operator_name,
             start_epoch |-> start_epoch, end_epoch |-> end_epoch,
             epochs_analyzed |-> a.epochs_in_period,
             agg |-> a,
             avg_reward_per_attestation |-> [sum |-> avg_sum, cnt |-> avg_cnt],
             max_possible_rewards |-> max_num \div avg_cnt,
             corrected_theoretical_performance |->
                 IF max_num > 0 THEN Pct(a.net_rewards * avg_cnt, max_num)
                 ELSE ZeroPct,
             attestation_success_rate |->
                 IF a.active_duty_periods > 0
                 THEN Pct(a.successful_attestations, a.active_duty_periods)
                 ELSE ZeroPct,
             data_coverage_percentage |->
                 IF a.expected_total_epochs > 0
                 THEN Pct(a.total_data_points, a.expected_total_epochs)
                 ELSE ZeroPct,
             missing_data_points |-> a.expected_total_epochs - a.total_data_points]

-----------------------------------------------------------------------------
(* Epoch window *)

EPOCHS_PER_DAY == 225

\* Policy A, "if not use available data": start_epoch = min_available_epoch and
\* the epoch count (epochs_requested / total_epochs) = epochs_available
ClampWindowKeepCount(latest_epoch, min_available_epoch, requested) ==
    LET start_epoch == latest_epoch - requested + 1
    IN  IF start_epoch < min_available_epoch
        THEN [start_epoch |-> min_available_epoch, epochs |-> requested]
        ELSE [start_epoch |-> start_epoch, epochs |-> requested]
ClampWindow(latest_epoch, min_available_epoch, requested) ==
    LET start_epoch == latest_epoch - requested + 1
    IN  IF start_epoch < min_available_epoch
        THEN [start_epoch |-> min_available_epoch,
              epochs |-> latest_epoch - min_available_epoch + 1]
        ELSE [start_epoch |-> start_epoch, epochs |-> requested]

\* round(x / y, 2), in hundredths
Rounded2(x, y) == (x * 200 + y) \div (2 * y)
\* round(x / y * 100, 2), in hundredths of a percent
RoundedPercentTruncated(x, y) == (x * 10000) \div y
RoundedPercent(x, y) == (x * 20000 + y) \div (2 * y)

\* Policy B: the "Insufficient data available" reply
\* if start_epoch < 0: the test against epoch 0 instead of the first epoch
InsufficientBeforeZero(latest_epoch, min_available_epoch, requested) ==
    latest_epoch - requested + 1 < 0
Insufficient(latest_epoch, min_available_epoch, requested) ==
    latest_epoch - requested + 1 < min_available_epoch

InsufficientReply(ep, latest_epoch, min_available_epoch, requested) ==
    LET epochs_available == latest_epoch - min_available_epoch + 1
    IN  [endpoint |-> ep, status |-> 200, policy |-> "strict",
         error |-> "Insufficient data available",
         epochs_requested |-> requested,
         epochs_available |-> epochs_available,
         latest_epoch |-> latest_epoch,
         min_available_epoch |-> min_available_epoch,
         requested_start_epoch |-> latest_epoch - requested + 1,
         data_completeness_percentage |-> RoundedPercent(epochs_available, requested)]

\* the same reply of theoretical_performance/extended, which also names the days
InsufficientDaysReply(ep, latest_epoch, min_available_epoch, days) ==
    LET epochs_available == latest_epoch - min_available_epoch + 1
        total_epochs == days * EPOCHS_PER_DAY
    IN  [endpoint |-> ep, status |-> 200, policy |-> "strict",
         error |-> "Insufficient data available",
         epochs_requested |-> total_epochs,
         epochs_available |-> epochs_available,
         days_requested |-> days,
         days_available |-> Rounded2(epochs_available, EPOCHS_PER_DAY),
         latest_epoch |-> latest_epoch,
         min_available_epoch |-> min_available_epoch,
         requested_start_epoch |-> latest_epoch - total_epochs + 1,
         data_completeness_percentage |-> RoundedPercent(epochs_available, total_epochs)]

-----------------------------------------------------------------------------
(* GET /theoretical_performance *)

\* CTE validator_data
PerformanceData(rows, start_epoch, latest_epoch) ==
    {r \in rows : /\ r.epoch >= start_epoch /\ r.epoch <= latest_epoch
                  /\ r.val_nos_name # SqlNull
                  /\ r.val_status \notin ExcludedStatuses}

\* one row of operator_performance with the columns the SELECT derives
OperatorPerformanceRow(data, op, start_epoch, latest_epoch) ==
    LET grp == {r \in data : r.val_nos_name = Some(op)}
        a   == DutyAggregate(grp, start_epoch, latest_epoch)
        total_theoretical_max_rewards == SumFn([r \in grp |-> ActiveTheoretical(r)])
        theoretical_performance ==
            IF total_theoretical_max_rewards > 0
            THEN Pct(a.net_rewards, total_theoretical_max_rewards) ELSE ZeroPct
    IN  [operator |-> op,
         validator_count |-> a.validator_count,
         total_actual_rewards |-> a.total_actual_rewards,
         total_theoretical_max_rewards |-> total_theoretical_max_rewards,
         operator_reward_percentage |-> theoretical_performance,
         avg_validator_reward_percentage |-> theoretical_performance,
         latest_epoch |-> latest_epoch, start_epoch |-> start_epoch,
         epochs_analyzed |-> a.epochs_in_period,
         agg |-> a,
         max_possible_rewards |-> total_theoretical_max_rewards,
         attestation_success_rate |->
             IF a.active_duty_periods > 0
             THEN Pct(a.successful_attestations, a.active_duty_periods)
             ELSE ZeroPct,
         data_coverage_percentage |->
             IF a.expected_total_epochs > 0
             THEN Pct(a.total_data_points, a.expected_total_epochs) ELSE ZeroPct,
         missing_data_points |-> a.expected_total_epochs - a.total_data_points]

OperatorPercentage(row) == row.operator_reward_percentage

\* every reply the endpoint can give (one per order of the tied rows)
TheoreticalPerformanceReplies(rows, limit) ==
    IF ~HasEpochData(rows) THEN {QueryFailed("theoretical_performance")}
    ELSE LET latest_epoch == LatestEpoch(rows)
             min_available_epoch == MinAvailableEpoch(rows)
             w == ClampWindow(latest_epoch, min_available_epoch, EPOCHS_PER_DAY)
             data == PerformanceData(rows, w.start_epoch, latest_epoch)
             ops  == {r.val_nos_name[1] : r \in data}
             out  == {OperatorPerformanceRow(data, op, w.start_epoch, latest_epoch) :
                         op \in ops}
         IN  {[endpoint |-> "theoretical_performance", status |-> 200,
               policy |-> "clamp", limit |-> limit,
               latest_epoch |-> latest_epoch,
               min_available_epoch |-> min_available_epoch,
               requested_epochs |-> EPOCHS_PER_DAY,
               start_epoch |-> w.start_epoch,
               epochs |-> w.epochs,
               results |-> Limit(s, limit)] : s \in DescListings(out, OperatorPercentage)}

-----------------------------------------------------------------------------
(* Simple methodology: CTE validator_rewards, shared by below_threshold[/extended]
   and theoretical_performance/extended.  The block, sync and recent-day
   columns of these queries are not modelled. *)

RECURSIVE SumPct(_)
\* SUM of percentages, as one fraction
SumPct(f) ==
    IF DOMAIN f = {} THEN ZeroPct
    ELSE LET x == CHOOSE y \in DOMAIN f : TRUE
             rest == SumPct([y \in DOMAIN f \ {x} |-> f[y]])
         IN  Pct(f[x].num * rest.den + rest.num * f[x].den, f[x].den * rest.den)

\* the terms of SUM(COALESCE(att_earned_reward, 0)) and of
\* SUM(COALESCE(att_earned_reward, 0) + COALESCE(att_missed_reward, 0))
SimpleActualNet(r) == Coalesce0(r.att_earned_reward) - Coalesce0(r.att_penalty)
SimpleActual(r) == Coalesce0(r.att_earned_reward)
SimpleTheoretical(r) == Coalesce0(r.att_earned_reward) + Coalesce0(r.att_missed_reward)

\* one row per (val_id, val_nos_name) with at least one row in the window
ValidatorRewards(rows, start_epoch, latest_epoch) ==
    LET data == PerformanceData(rows, start_epoch, latest_epoch)
        keys == {<<r.val_id, r.val_nos_name>> : r \in data}
        grp(g) == {r \in data : r.val_id = g[1] /\ r.val_nos_name = g[2]}
        actual(g) == SumFn([r \in grp(g) |-> SimpleActual(r)])
        theoretical(g) == SumFn([r \in grp(g) |-> SimpleTheoretical(r)])
    IN  {[val_id |-> g[1], val_nos_name |-> g[2][1],
          total_epochs |-> Cardinality(grp(g)),
          actual_rewards |-> actual(g),
          theoretical_max_rewards |-> theoretical(g),
          attestations_made |->
              SumFn([r \in grp(g) |-> IF SqlEq(r.att_happened, 1) THEN 1 ELSE 0]),
          attestations_missed |-> SumFn([r \in grp(g) |-> MissedAttestation(r)]),
          reward_percentage |->
              IF theoretical(g) > 0 THEN Pct(actual(g), theoretical(g)) ELSE ZeroPct]
         : g \in keys}

AvgRewardPercentageAsTotals(vs) ==
    LET a == SumFn([x \in vs |-> x.actual_rewards])
        t == SumFn([x \in vs |-> x.theoretical_max_rewards])
    IN  IF t > 0 THEN Pct(a, t) ELSE ZeroPct
\* AVG(validator_reward_percentage) as avg_reward_percentage
AvgRewardPercentage(vs) ==
    LET total == SumPct([x \in vs |-> x.reward_percentage])
    IN  Pct(total.num, total.den * Cardinality(vs))

\* CTE operator_performance of theoretical_performance/extended
ExtendedOperatorRow(vrs, op, start_epoch, latest_epoch, days, total_epochs) ==
    LET vs == {x \in vrs : x.val_nos_name = op}
        total_actual_rewards == SumFn([x \in vs |-> x.actual_rewards])
        total_theoretical_max_rewards ==
            SumFn([x \in vs |-> x.theoretical_max_rewards])
    IN  [operator |-> op,
         validator_count |-> Cardinality(vs),
         total_actual_rewards |-> total_actual_rewards,
         total_theoretical_max_rewards |-> total_theoretical_max_rewards,
         operator_reward_percentage |->
             IF total_theoretical_max_rewards > 0
             THEN Pct(total_actual_rewards, total_theoretical_max_rewards)
             ELSE ZeroPct,
         avg_validator_reward_percentage |-> AvgRewardPercentage(vs),
         total_attestations_made |-> SumFn([x \in vs |-> x.attestations_made]),
         total_attestations_missed |-> SumFn([x \in vs |-> x.attestations_missed]),
         latest_epoch |-> latest_epoch, start_epoch |-> start_epoch,
         days_analyzed |-> days, total_epochs_analyzed |-> total_epochs]

\* GET /theoretical_performance/extended
TheoreticalPerformanceExtendedReplies(rows, days, limit) ==
    IF ~HasEpochData(rows) THEN {QueryFailed("theoretical_performance/extended")}
    ELSE LET latest_epoch == LatestEpoch(rows)
             total_epochs == days * EPOCHS_PER_DAY
             start_epoch == latest_epoch - total_epochs + 1
             min_available_epoch == MinAvailableEpoch(rows)
             vrs == ValidatorRewards(rows, start_epoch, latest_epoch)
             out == {ExtendedOperatorRow(vrs, op, start_epoch, latest_epoch,
                                         days, total_epochs) :
                        op \in {x.val_nos_name : x \in vrs}}
         IN  IF Insufficient(latest_epoch, min_available_epoch, total_epochs)
             THEN {InsufficientDaysReply("theoretical_performance/extended", latest_epoch,
                                         min_available_epoch, days)}
             ELSE {[endpoint |-> "theoretical_performance/extended", status |-> 200,
                    policy |-> "strict", limit |-> limit, days |-> days,
                    latest_epoch |-> latest_epoch,
                    min_available_epoch |-> min_available_epoch,
                    requested_epochs |-> days * EPOCHS_PER_DAY,
                    start_epoch |-> start_epoch, epochs |-> total_epochs,
                    results |-> Limit(s, limit)] :
                        s \in DescListings(out, OperatorPercentage)}

\* ORDER BY reward_percentage ASC, val_nos_name, val_id
BelowOrder(a, b) ==
    \/ PctLess(a.reward_percentage, b.reward_percentage)
    \/ /\ PctEq(a.reward_percentage, b.reward_percentage)
       /\ \/ NameRank(a.val_nos_name) < NameRank(b.val_nos_name)
          \/ a.val_nos_name = b.val_nos_name /\ a.val_id < b.val_id

\* WHERE reward_percentage <= threshold ... LIMIT
BelowThresholdRowsInclusive(rows, start_epoch, latest_epoch, threshold, limit) ==
    LET vrs == ValidatorRewards(rows, start_epoch, latest_epoch)
        low == {x \in vrs : x.reward_percentage.num * 100
                                <= threshold * x.reward_percentage.den}
    IN  Limit(SortSet(low, BelowOrder), limit)
\* WHERE reward_percentage < threshold ... LIMIT
BelowThresholdRows(rows, start_epoch, latest_epoch, threshold, limit) ==
    LET vrs == ValidatorRewards(rows, start_epoch, latest_epoch)
        low == {x \in vrs : x.reward_percentage.num * 100
                                < threshold * x.reward_percentage.den}
    IN  Limit(SortSet(low, BelowOrder), limit)

\* the loops that turn one row of the query into one entry of the reply
BelowResult(x, latest_epoch, start_epoch, threshold) ==
    [operator |-> x.val_nos_name, validator_id |-> x.val_id,
     total_epochs |-> x.total_epochs, actual_rewards |-> x.actual_rewards,
     theoretical_max_rewards |-> x.theoretical_max_rewards,
     reward_percentage |-> x.reward_percentage,
     attestations_made |-> x.attestations_made,
     attestations_missed |-> x.attestations_missed,
     latest_epoch |-> latest_epoch, start_epoch |-> start_epoch,
     threshold_percentage |-> threshold]
BelowExtendedResult(x, latest_epoch, start_epoch, days, threshold) ==
    [operator |-> x.val_nos_name, validator_id |-> x.val_id,
     total_epochs |-> x.total_epochs, actual_rewards |-> x.actual_rewards,
     theoretical_max_rewards |-> x.theoretical_max_rewards,
     reward_percentage |-> x.reward_percentage,
     attestations_made |-> x.attestations_made,
     attestations_missed |-> x.attestations_missed,
     latest_epoch |-> latest_epoch, start_epoch |-> start_epoch,
     days_analyzed |-> days, threshold_percentage |-> threshold]

DEFAULT_THRESHOLD == 97

\* GET /below_threshold
BelowThresholdReply(rows, limit) ==
    IF ~HasEpochData(rows) THEN QueryFailed("below_threshold")
    ELSE LET latest_epoch == LatestEpoch(rows)
             start_epoch == latest_epoch - 224
             min_available_epoch == MinAvailableEpoch(rows)
         IN  IF Insufficient(latest_epoch, min_available_epoch, EPOCHS_PER_DAY)
             THEN InsufficientReply("below_threshold", latest_epoch,
                                    min_available_epoch, EPOCHS_PER_DAY)
             ELSE [endpoint |-> "below_threshold", status |-> 200,
                   policy |-> "strict", limit |-> limit,
                   latest_epoch |-> latest_epoch,
                   min_available_epoch |-> min_available_epoch,
                   requested_epochs |-> EPOCHS_PER_DAY,
                   start_epoch |-> start_epoch, epochs |-> EPOCHS_PER_DAY,
                   threshold |-> DEFAULT_THRESHOLD,
                   results |->
                       LET found == BelowThresholdRows(rows, start_epoch, latest_epoch,
                                                       DEFAULT_THRESHOLD, limit)
                       IN  [i \in DOMAIN found |->
                               BelowResult(found[i], latest_epoch, start_epoch,
                                           DEFAULT_THRESHOLD)]]

\* GET /below_threshold/extended
BelowThresholdExtendedReply(rows, days, threshold, limit) ==
    IF ~HasEpochData(rows) THEN QueryFailed("below_threshold/extended")
    ELSE LET latest_epoch == LatestEpoch(rows)
             min_available_epoch == MinAvailableEpoch(rows)
             w == ClampWindow(latest_epoch, min_available_epoch, days * EPOCHS_PER_DAY)
             \* days = max(1, int(epochs_available / 225)) when clamped
             days_analyzed ==
                 IF latest_epoch - days * EPOCHS_PER_DAY + 1 < min_available_epoch
                 THEN Max2(1, (latest_epoch - min_available_epoch + 1) \div EPOCHS_PER_DAY)
                 ELSE days
         IN  [endpoint |-> "below_threshold/extended", status |-> 200,
              policy |-> "clamp", limit |-> limit, days |-> days,
              latest_epoch |-> latest_epoch,
              min_available_epoch |-> min_available_epoch,
              requested_epochs |-> days * EPOCHS_PER_DAY,
              start_epoch |-> w.start_epoch, epochs |-> w.epochs,
              days_analyzed |-> days_analyzed, threshold |-> threshold,
              results |->
                  LET found == BelowThresholdRows(rows, w.start_epoch, latest_epoch,
                                                  threshold, limit)
                  IN  [i \in DOMAIN found |->
                          BelowExtendedResult(found[i], latest_epoch, w.start_epoch,
                                              days_analyzed, threshold)]]

-----------------------------------------------------------------------------
(* Comprehensive calculator: GET /theoretical_performance_all[/extended] *)

\* the rows the baseline AVG(propose_earned_reward) is taken over: successful
\* proposals of the window with a positive reward, of any operator and status
BaselineRows(rows, start_epoch, latest_epoch) ==
    {r \in rows : /\ r.epoch >= start_epoch /\ r.epoch <= latest_epoch
                  /\ SqlEq(r.is_proposer, 1) /\ SqlEq(r.block_proposed, 1)
                  /\ SqlGt(r.propose_earned_reward, 0)}

\* proposer_actual_capped = min(proposer_actual, proposer_ideal)
\*                          if proposer_ideal > 0 else proposer_actual
ProposerActualUncapped(proposer_actual, proposer_ideal) == proposer_actual
ProposerActualCapped(proposer_actual, proposer_ideal) ==
    IF proposer_ideal > 0 THEN Min2(proposer_actual, proposer_ideal)
    ELSE proposer_actual

\* total_ideal = attester_ideal + proposer_ideal + sync_ideal
TotalIdealWithoutSync(attester_ideal, proposer_ideal, sync_ideal) ==
    attester_ideal + proposer_ideal
TotalIdeal(attester_ideal, proposer_ideal, sync_ideal) ==
    attester_ideal + proposer_ideal + sync_ideal

\* one row of the GROUP BY val_nos_name query, given the baseline avg_sum/avg_cnt
ComprehensiveSqlRow(data, op, avg_sum, avg_cnt) ==
    LET grp == {r \in data : r.val_nos_name = Some(op)}
        duties == SumFn([r \in grp |-> IF SqlEq(r.is_proposer, 1) THEN 1 ELSE 0])
        attester_actual == SumFn([r \in grp |-> Coalesce0(r.att_earned_reward)])
        attester_ideal ==
            SumFn([r \in grp |-> Coalesce0(r.att_earned_reward)
                                  + Coalesce0(r.att_missed_reward)])
        proposer_actual ==
            SumFn([r \in grp |-> IF SqlEq(r.is_proposer, 1)
                                 THEN Coalesce0(r.propose_earned_reward) ELSE 0])
        sync_actual ==
            SumFn([r \in grp |-> IF SqlEq(r.is_sync, 1)
                                 THEN Coalesce0(r.sync_earned_reward) ELSE 0])
        sync_ideal ==
            SumFn([r \in grp |-> IF SqlEq(r.is_sync, 1)
                                 THEN Coalesce0(r.sync_earned_reward)
                                      + Coalesce0(r.sync_missed_reward) ELSE 0])
        \* the ORDER BY expression: uncapped, ideal not truncated
        key_den == (attester_ideal + sync_ideal) * avg_cnt + duties * avg_sum
    IN  [operator |-> op,
         validator_count |-> Cardinality({r.val_id : r \in grp}),
         total_attester_actual_reward |-> attester_actual,
         total_attester_ideal_reward |-> attester_ideal,
         total_proposer_actual_reward |-> proposer_actual,
         \* int(float(row[5])) of SUM(... THEN period_avg_reward ...)
         total_proposer_ideal_reward |-> (duties * avg_sum) \div avg_cnt,
         total_sync_actual_reward |-> sync_actual,
         total_sync_ideal_reward |-> sync_ideal,
         successful_attestations |->
             SumFn([r \in grp |-> IF SqlEq(r.att_happened, 1) THEN 1 ELSE 0]),
         missed_attestations |-> SumFn([r \in grp |-> MissedAttestation(r)]),
         total_proposer_duties |-> duties,
         total_sync_duties |->
             SumFn([r \in grp |-> IF SqlEq(r.is_sync, 1) THEN 1 ELSE 0]),
         total_epochs_data |-> Cardinality(grp),
         order_key |->
             IF key_den > 0
             THEN Pct((attester_actual + proposer_actual + sync_actual) * avg_cnt, key_den)
             ELSE ZeroPct]

ComprehensiveOrderKey(row) == row.order_key

\* the loop that turns one row of the query into one entry of the reply
ComprehensiveResult(row, latest_epoch, start_epoch, epochs_analyzed) ==
    LET attester_actual == row.total_attester_actual_reward
        attester_ideal == row.total_attester_ideal_reward
        proposer_actual == row.total_proposer_actual_reward
        proposer_ideal == row.total_proposer_ideal_reward
        sync_actual == row.total_sync_actual_reward
        sync_ideal == row.total_sync_ideal_reward
        proposer_actual_capped == ProposerActualCapped(proposer_actual, proposer_ideal)
        total_actual_capped == attester_actual + proposer_actual_capped + sync_actual
        total_ideal == TotalIdeal(attester_ideal, proposer_ideal, sync_ideal)
    IN  [operator |-> row.operator,
         validator_count |-> row.validator_count,
         attester_actual_reward |-> attester_actual,
         proposer_actual_reward |-> proposer_actual,
         sync_actual_reward |-> sync_actual,
         attester_ideal_reward |-> attester_ideal,
         proposer_ideal_reward |-> proposer_ideal,
         sync_ideal_reward |-> sync_ideal,
         total_actual_reward |-> total_actual_capped,
         total_ideal_reward |-> total_ideal,
         overall_efficiency |->
             IF total_ideal > 0 THEN Pct(total_actual_capped, total_ideal) ELSE ZeroPct,
         attester_efficiency |->
             IF attester_ideal > 0 THEN Pct(attester_actual, attester_ideal) ELSE ZeroPct,
         proposer_efficiency |->
             IF proposer_ideal > 0
             THEN Pct(Min2(proposer_actual, proposer_ideal), proposer_ideal)
             ELSE ZeroPct,
         sync_efficiency |->
             IF sync_ideal > 0 THEN Pct(sync_actual, sync_ideal) ELSE ZeroPct,
         successful_attestations |-> row.successful_attestations,
         missed_attestations |-> row.missed_attestations,
         total_proposer_duties |-> row.total_proposer_duties,
         total_sync_duties |-> row.total_sync_duties,
         total_epochs_data |-> row.total_epochs_data,
         latest_epoch |-> latest_epoch, start_epoch |-> start_epoch,
         epochs_analyzed |-> epochs_analyzed]

\* the ranking query and the loop, given what the three queries before it
\* returned: the latest epoch, the minimum epoch and the baseline avg_sum/avg_cnt
ComprehensiveList(ep, rows, latest_epoch, min_available_epoch, avg_sum, avg_cnt, requested, limit) ==
    LET w == ClampWindow(latest_epoch, min_available_epoch, requested)
        data == PerformanceData(rows, w.start_epoch, latest_epoch)
        out == {ComprehensiveSqlRow(data, op, avg_sum, avg_cnt) :
                   op \in {r.val_nos_name[1] : r \in data}}
    IN  {[endpoint |-> ep, status |-> 200, policy |-> "clamp",
          limit |-> limit, latest_epoch |-> latest_epoch,
          min_available_epoch |-> min_available_epoch,
          requested_epochs |-> requested,
          start_epoch |-> w.start_epoch, epochs |-> w.epochs,
          results |->
              [i \in DOMAIN Limit(s, limit) |->
                  ComprehensiveResult(s[i], latest_epoch, w.start_epoch,
                                      w.epochs)]] :
              s \in DescListings(out, ComprehensiveOrderKey)}

\* both endpoints after the window is requested: clamp, baseline, query, loop,
\* all four queries answered from the same rows.
\* With no successful proposal in the window the baseline comes back as the
\* null marker, a non-empty text, and float() of it raises: the fallback of
\* line 1237 is not taken and the request fails
ComprehensiveReplies(ep, rows, requested, limit) ==
    IF ~HasEpochData(rows) THEN {QueryFailed(ep)}
    ELSE LET latest_epoch == LatestEpoch(rows)
             min_available_epoch == MinAvailableEpoch(rows)
             w == ClampWindow(latest_epoch, min_available_epoch, requested)
             base == BaselineRows(rows, w.start_epoch, latest_epoch)
             avg_sum == SumFn([r \in base |-> r.propose_earned_reward[1]])
             avg_cnt == Cardinality(base)
         IN  IF base = {} THEN {QueryFailed(ep)}
             ELSE ComprehensiveList(ep, rows, latest_epoch, min_available_epoch,
                                    avg_sum, avg_cnt, requested, limit)

\* GET /theoretical_performance_all
TheoreticalPerformanceAllReplies(rows, limit) ==
    ComprehensiveReplies("theoretical_performance_all", rows, EPOCHS_PER_DAY, limit)

\* total_epochs = days * 225
TotalEpochsAndOne(days) == days * EPOCHS_PER_DAY + 1
TotalEpochs(days) == days * EPOCHS_PER_DAY

\* GET /theoretical_performance_all/extended: the same clamp, baseline, query
\* and loop over total_epochs, each entry naming the days asked for
TheoreticalPerformanceAllExtendedReplies(rows, days, limit) ==
    LET WithDays(x) ==
            [f \in DOMAIN x \cup {"days_analyzed"} |->
                IF f = "days_analyzed" THEN days ELSE x[f]]
    IN  {IF reply.status = 200
         THEN [reply EXCEPT !.results = [i \in DOMAIN @ |-> WithDays(@[i])]]
         ELSE reply :
            reply \in ComprehensiveReplies("theoretical_performance_all/extended",
                                           rows, TotalEpochs(days), limit)}

-----------------------------------------------------------------------------
(* Relative score: calculate_attestation_performance (analysis.py) and
   AnalyticsService._calculate_attestation_only_performance (analytics.py).
   The validators file is a sequence of records, in the order the loop visits
   them; an average is the pair of its sum and its count. *)

\* validators the loop does not skip for being activated too recently
Seen(validators, op) ==
    {i \in DOMAIN validators : validators[i].operator = op /\ ~validators[i].recent}
\* ... that are in excluded_validators
Excluded(validators, op) ==
    {i \in Seen(validators, op) : validators[i].excluded}
\* ... whose performance is appended to regular_performances
Regular(validators, op) ==
    {i \in Seen(validators, op) : /\ ~validators[i].excluded
                                  /\ validators[i].performance_gwei > 0}

\* sum(regular_performances) / len(regular_performances), 0 for an empty list
AveragePerformance(validators, op) ==
    IF Regular(validators, op) = {} THEN [sum |-> 0, cnt |-> 1]
    ELSE [sum |-> SumFn([i \in Regular(validators, op) |->
                            validators[i].performance_gwei]),
          cnt |-> Cardinality(Regular(validators, op))]

AvgLess(a, b) == a.sum * b.cnt < b.sum * a.cnt

\* (performance / highest_performance) * 100 if highest_performance > 0 else 0
RelativeScore(performance, highest_performance) ==
    IF highest_performance.sum > 0
    THEN Pct(performance.sum * highest_performance.cnt,
             performance.cnt * highest_performance.sum)
    ELSE ZeroPct

\* the keys of operator_data, and where each was first inserted
OperatorData(validators) ==
    {validators[i].operator : i \in {j \in DOMAIN validators : ~validators[j].recent}}
FirstSeen(validators, op) ==
    CHOOSE i \in Seen(validators, op) : \A j \in Seen(validators, op) : i <= j

\* preliminary_results after sort(key=avg_performance, reverse=True): the sort
\* is stable, equal averages stay in insertion order
PreliminaryResults(validators) ==
    LET kept == {op \in OperatorData(validators) : Regular(validators, op) # {}}
        before(a, b) ==
            \/ AvgLess(AveragePerformance(validators, b), AveragePerformance(validators, a))
            \/ /\ ~AvgLess(AveragePerformance(validators, a), AveragePerformance(validators, b))
               /\ FirstSeen(validators, a) < FirstSeen(validators, b)
    IN  SortSet(kept, before)

\* calculate_attestation_performance
AttestationPerformanceReply(validators) ==
    LET preliminary_results == PreliminaryResults(validators)
        highest_performance ==
            IF preliminary_results # <<>>
            THEN AveragePerformance(validators, preliminary_results[1])
            ELSE [sum |-> 1, cnt |-> 1]
    IN  [endpoint |-> "attestation_performance", status |-> 200,
         results |->
            [i \in DOMAIN preliminary_results |->
                LET op == preliminary_results[i]
                IN  [operator |-> op,
                     total_validators |-> Cardinality(Seen(validators, op)),
                     attestation_validators |-> Cardinality(Regular(validators, op)),
                     excluded_validators |-> Cardinality(Excluded(validators, op)),
                     regular_performance_gwei |-> AveragePerformance(validators, op),
                     relative_score |->
                         RelativeScore(AveragePerformance(validators, op),
                                       highest_performance)]]]

\* max(operator_averages) if operator_averages else 1
LowestPerformance(operator_averages) ==
    IF operator_averages = {} THEN [sum |-> 1, cnt |-> 1]
    ELSE CHOOSE a \in operator_averages : \A b \in operator_averages : ~AvgLess(b, a)
HighestPerformance(operator_averages) ==
    IF operator_averages = {} THEN [sum |-> 1, cnt |-> 1]
    ELSE CHOOSE a \in operator_averages : \A b \in operator_averages : ~AvgLess(a, b)

\* _calculate_attestation_only_performance: (operator_performance,
\* operator_relative_scores)
AttestationOnlyReply(validators) ==
    LET ops == OperatorData(validators)
        operator_averages ==
            {AveragePerformance(validators, op) :
                op \in {o \in ops : Regular(validators, o) # {}}}
        highest_performance == HighestPerformance(operator_averages)
    IN  [endpoint |-> "attestation_only", status |-> 200,
         operator_performance |->
             [op \in ops |-> AveragePerformance(validators, op)],
         operator_relative_scores |->
             [op \in ops |-> RelativeScore(AveragePerformance(validators, op),
                                           highest_performance)]]

-----------------------------------------------------------------------------
(* Files, the loader cache of data_loader_api.py and the file-backed services *)

\* a Python dict is a function; {} is the function with no key
EmptyDict == <<>>
Put(d, k, v) == [x \in DOMAIN d \cup {k} |-> IF x = k THEN v ELSE d[x]]
\* d.get(k, default)
Get(d, k, default) == IF k \in DOMAIN d THEN d[k] ELSE default

\* candidate paths, highest priority first (the first two of each list)
CACHE_FILES ==
    <<"./nodeset_validator_tracker_cache.json",
      "./json_data/nodeset_validator_tracker_cache.json">>
ENS_NAMES_FILES == <<"./manual_ens_names.json">>
cache_paths ==
    <<"../json_data/operator_daily_performance_cache.json",
      "operator_daily_performance_cache.json">>
Paths ==
    Range(CACHE_FILES) \cup Range(ENS_NAMES_FILES) \cup Range(cache_paths)
        \cup {"../json_data/sync_committee_participation.json",
              "sync_committee_participation.json"}

\* the clock ticks once per 450 seconds: the TTL of validator_data is 900
\* seconds, the one of ens_names 3600 seconds
ValidatorDataTtl == 2
EnsNamesTtl == 8

\* disk[path] is <<>> when no file is there, else <<[mtime, content]>>
NoFile == <<>>
File(mtime, content) == <<[mtime |-> mtime, content |-> content]>>
Exists(filepath) == disk[filepath] # NoFile
\* _get_file_mod_time
GetFileModTime(filepath) ==
    IF Exists(filepath) THEN disk[filepath][1].mtime ELSE 0

\* the three dictionaries as one value
LoaderState ==
    [cache |-> cache, cache_timestamps |-> cache_timestamps,
     file_mod_times |-> file_mod_times]

AreFilesNewerThanCache(s, key, file_paths) ==
    IF key \notin DOMAIN s.file_mod_times
    THEN TRUE
    ELSE \E i \in DOMAIN file_paths :
            GetFileModTime(file_paths[i]) >
                Get(s.file_mod_times[key], file_paths[i], 0)

IsCacheValid(s, key, ttl, file_paths) ==
    /\ key \in DOMAIN s.cache_timestamps
    /\ now - s.cache_timestamps[key] < ttl
    /\ ~(file_paths # <<>> /\ AreFilesNewerThanCache(s, key, file_paths))

\* the cached value is returned as it is
CacheValid(s, key, ttl, file_paths) ==
    key \in DOMAIN s.cache /\ IsCacheValid(s, key, ttl, file_paths)

\* the loader's dictionaries after _get_cached_or_load; result is what
\* loader_func() returns
GetCachedOrLoad(s, key, result, ttl, file_paths) ==
    IF CacheValid(s, key, ttl, file_paths)
    THEN s
    ELSE [cache |-> Put(s.cache, key, result),
          cache_timestamps |-> Put(s.cache_timestamps, key, now),
          file_mod_times |->
              IF file_paths # <<>>
              THEN Put(s.file_mod_times, key,
                       [p \in Range(file_paths) |-> GetFileModTime(p)])
              ELSE s.file_mod_times]

\* _load of load_validator_data and load_ens_names: the content of the first
\* candidate file that exists, with its path; (None, None) when none exists
LoadFirst(file_paths) ==
    IF \A i \in DOMAIN file_paths : ~Exists(file_paths[i])
    THEN [data |-> <<>>, file |-> <<>>]
    ELSE LET i == CHOOSE i \in DOMAIN file_paths :
                     /\ Exists(file_paths[i])
                     /\ \A j \in 1..(i - 1) : ~Exists(file_paths[j])
         IN  [data |-> <<disk[file_paths[i]][1].content>>,
              file |-> <<file_paths[i]>>]

LoadValidatorData(s) ==
    GetCachedOrLoad(s, "validator_data", LoadFirst(CACHE_FILES),
                    ValidatorDataTtl, CACHE_FILES)
LoadEnsNames(s) ==
    GetCachedOrLoad(s, "ens_names", LoadFirst(ENS_NAMES_FILES),
                    EnsNamesTtl, ENS_NAMES_FILES)

\* The tracker file: exit_details holds the completed exits and
\* active_exiting_details the validators that are leaving, by public key
ExitPubkeys == <<"0xv1", "0xv2">>
CompletedExit == [operator |-> "0xA", exit_timestamp |-> 2]
ExitingInfos ==
    {[operator |-> "0xA", active_exiting_timestamp |-> 5],
     [operator |-> "0xA", active_exiting_timestamp |-> 5, exit_timestamp |-> 3],
     [operator |-> "", active_exiting_timestamp |-> 6]}
TrackerContents ==
    {[exit_details |-> e, active_exiting_details |-> a] :
        e \in {EmptyDict, [k \in {"0xv1"} |-> CompletedExit]},
        a \in {EmptyDict} \cup {[k \in {"0xv2"} |-> i] : i \in ExitingInfos}}
EnsContents == {[k \in {"0xA"} |-> "alice.eth"]}

\* the keys of a dict in the order of iteration
Items(d) == SelectSeq(ExitPubkeys, LAMBDA k : k \in DOMAIN d)

\* the two assignments to exit_info in the loops over active_exiting_details
WithExitFields(exit_info) ==
    LET t == IF "active_exiting_timestamp" \in DOMAIN exit_info
             THEN Put(exit_info, "exit_timestamp",
                      exit_info["active_exiting_timestamp"])
             ELSE exit_info
    IN  IF "active_exiting_epoch" \in DOMAIN t
        THEN Put(t, "exit_epoch", t["active_exiting_epoch"])
        ELSE t

\* _create_exit_record, three of its fields
CreateExitRecord(validator_pubkey, exit_info) ==
    [validator_pubkey |-> validator_pubkey,
     operator |-> Get(exit_info, "operator", ""),
     exit_timestamp |-> Get(exit_info, "exit_timestamp", 0)]

\* list.sort(key = -exit_timestamp): stable
NewestFirst(records) ==
    LET Before(i, j) ==
            \/ records[i].exit_timestamp > records[j].exit_timestamp
            \/ /\ records[i].exit_timestamp = records[j].exit_timestamp
               /\ i < j
        at == [k \in DOMAIN records |->
                  CHOOSE i \in DOMAIN records :
                      Cardinality({j \in DOMAIN records : Before(j, i)}) = k - 1]
    IN  [k \in DOMAIN records |-> records[at[k]]]

ExitRecords(details, Keep(_)) ==
    LET keys == SelectSeq(Items(details), Keep)
    IN  [i \in DOMAIN keys |-> CreateExitRecord(keys[i], details[keys[i]])]

\* the cached tracker data after a loop over active_exiting_details that
\* writes the two fields into the entries it keeps
TrackerAfter(data, Keep(_)) ==
    [data EXCEPT !.active_exiting_details =
        [k \in DOMAIN @ |-> IF Keep(k) THEN WithExitFields(@[k]) ELSE @[k]]]

\* AnalyticsService.get_all_exit_records
AllExitRecords(s0) ==
    LET s1 == LoadValidatorData(s0)
        validator_data == s1.cache["validator_data"].data
    IN  IF validator_data = <<>>
        THEN [loader |-> s1,
              reply |-> [endpoint |-> "all_exit_records", status |-> 0,
                         error |-> "Validator data not available"]]
        ELSE
        LET s2 == LoadEnsNames(s1)
            data == validator_data[1]
            after == TrackerAfter(data, LAMBDA k : TRUE)
            all_exit_records ==
                NewestFirst(ExitRecords(data.exit_details, LAMBDA k : TRUE)
                            \o ExitRecords(after.active_exiting_details,
                                           LAMBDA k : TRUE))
        IN  IF data.exit_details = EmptyDict
               /\ data.active_exiting_details = EmptyDict
            THEN [loader |-> s2,
                  reply |-> [endpoint |-> "all_exit_records", status |-> 0,
                             error |-> "No exit details found in validator data"]]
            ELSE [loader |->
                      [s2 EXCEPT !.cache["validator_data"].data = <<after>>],
                  reply |-> [endpoint |-> "all_exit_records", status |-> 200,
                             recent_exits |-> all_exit_records,
                             total_count |-> Len(all_exit_records)]]

\* AnalyticsService.get_enhanced_exit_data: entries without an operator are
\* passed over; the operators of the model are "0xA" alone
EnhancedExitData(s0) ==
    LET s1 == LoadValidatorData(s0)
        validator_data == s1.cache["validator_data"].data
    IN  IF validator_data = <<>>
        THEN [loader |-> s1,
              reply |-> [endpoint |-> "enhanced_exit_data", status |-> 0,
                         error |-> "Validator data not available"]]
        ELSE
        LET s2 == LoadEnsNames(s1)
            data == validator_data[1]
            Exited(k) == Get(data.exit_details[k], "operator", "") # ""
            Exiting(k) == Get(data.active_exiting_details[k], "operator", "") # ""
            after == TrackerAfter(data, Exiting)
            exits == ExitRecords(data.exit_details, Exited)
            active_exiting == ExitRecords(after.active_exiting_details, Exiting)
            operators_with_exits ==
                IF Len(exits) + Len(active_exiting) > 0
                THEN <<[operator |-> "0xA", exits |-> Len(exits),
                        active_exiting |-> Len(active_exiting)]>>
                ELSE <<>>
        IN  [loader |-> [s2 EXCEPT !.cache["validator_data"].data = <<after>>],
             reply |-> [endpoint |-> "enhanced_exit_data", status |-> 200,
                        operators_with_exits |-> operators_with_exits,
                        recent_exits |->
                            Limit(NewestFirst(exits \o active_exiting), 100)]]

\* OperatorPerformanceService: _cache and _last_loaded, None at construction
NewService == [cache |-> <<>>, last_loaded |-> <<>>]
\* EnhancedAnalyticsService: _cache and _last_loaded, {} at construction
NewEnhanced == [cache |-> EmptyDict, last_loaded |-> EmptyDict]
DayLists == {<<>>, <<[date |-> 2], [date |-> 1]>>, <<[date |-> 3]>>}
PerformanceContents ==
    {EmptyDict} \cup
    {[last_updated |-> 1, operators |-> [k \in {"0xA"} |->
                                            [daily_performance |-> d]]] :
        d \in DayLists}
DefaultCache == [last_updated |-> 0, operators |-> EmptyDict]

\* _find_cache_file: <<>> when no candidate exists
FindCacheFile ==
    IF \A i \in DOMAIN cache_paths : ~Exists(cache_paths[i])
    THEN <<>>
    ELSE LET i == CHOOSE i \in DOMAIN cache_paths :
                     /\ Exists(cache_paths[i])
                     /\ \A j \in 1..(i - 1) : ~Exists(cache_paths[j])
         IN  <<cache_paths[i]>>

\* _load_cache(force_reload): the service afterwards and the dict returned
LoadCache(sv, force_reload) ==
    LET cache_path == FindCacheFile
    IN  IF cache_path = <<>>
        THEN [service |-> sv, data |-> DefaultCache]
        ELSE
        LET file_mtime == GetFileModTime(cache_path[1])
            content == disk[cache_path[1]][1].content
        IN  IF /\ ~force_reload
               /\ sv.cache # <<>> /\ sv.cache[1] # EmptyDict
               /\ sv.last_loaded # <<>> /\ sv.last_loaded[1] # 0
               /\ file_mtime <= sv.last_loaded[1]
            THEN [service |-> sv, data |-> sv.cache[1]]
            ELSE [service |-> [cache |-> <<content>>,
                               last_loaded |-> <<file_mtime>>],
                  data |-> content]

\* OperatorPerformanceService.get_operator_performance and its route
OperatorPerformance(sv, operator, days) ==
    LET loaded == LoadCache(sv, FALSE)
        operators == Get(loaded.data, "operators", EmptyDict)
    IN  IF operator \notin DOMAIN operators
        THEN [service |-> loaded.service,
              reply |-> [endpoint |-> "operator_performance", status |-> 404,
                         operator |-> operator, loaded |-> loaded.data]]
        ELSE [service |-> loaded.service,
              reply |-> [endpoint |-> "operator_performance", status |-> 200,
                         operator |-> operator, loaded |-> loaded.data,
                         data |-> [daily_performance |->
                              IF days > 0
                              THEN Limit(operators[operator].daily_performance, days)
                              ELSE operators[operator].daily_performance]]]

\* EnhancedAnalyticsService: the candidate paths of "sync_committee"
data_paths ==
    <<"../json_data/sync_committee_participation.json",
      "sync_committee_participation.json">>
SyncContents ==
    {EmptyDict} \cup
    {[operator_summary |-> [k \in {"0xA"} |-> [participation_rate |-> p]]] :
        p \in {50, 99}}

\* _find_data_file("sync_committee")
FindDataFile ==
    IF \A i \in DOMAIN data_paths : ~Exists(data_paths[i])
    THEN <<>>
    ELSE LET i == CHOOSE i \in DOMAIN data_paths :
                     /\ Exists(data_paths[i])
                     /\ \A j \in 1..(i - 1) : ~Exists(data_paths[j])
         IN  <<data_paths[i]>>

\* _load_data(data_type, force_reload)
LoadData(sv, data_type, force_reload) ==
    LET data_path == FindDataFile
    IN  IF data_path = <<>>
        THEN [service |-> sv, data |-> EmptyDict]
        ELSE
        LET file_mtime == GetFileModTime(data_path[1])
            content == disk[data_path[1]][1].content
        IN  IF /\ ~force_reload
               /\ data_type \in DOMAIN sv.cache
               /\ data_type \in DOMAIN sv.last_loaded
               /\ file_mtime <= sv.last_loaded[data_type]
            THEN [service |-> sv, data |-> sv.cache[data_type]]
            ELSE [service |-> [cache |-> Put(sv.cache, data_type, content),
                               last_loaded |-> Put(sv.last_loaded, data_type,
                                                   file_mtime)],
                  data |-> content]

\* get_operator_sync_committee_analytics and its route
OperatorSyncCommittee(sv, operator) ==
    LET loaded == LoadData(sv, "sync_committee", FALSE)
        sync_data == loaded.data
        operator_summary ==
            Get(Get(sync_data, "operator_summary", EmptyDict), operator, EmptyDict)
    IN  [service |-> loaded.service,
         reply |-> [endpoint |-> "sync-committee", status |-> 200,
                    operator |-> operator, loaded |-> sync_data,
                    participation_rate |->
                        IF sync_data = EmptyDict THEN 0
                        ELSE Get(operator_summary, "participation_rate", 0)]]

(***************************************************************************)
(* The analytics store of routers/analytics.py                             *)
(*                                                                         *)
(* Time is counted in the clock's ticks of 450 seconds, for the wall clock *)
(* and for the timestamps the clients send alike.                          *)
(***************************************************************************)
TicksPerDay == 192
RetentionDays == 90
\* the wall clock when the model's clock shows 0
ClockStart == 100 * TicksPerDay
WallClock == ClockStart + now

\* datetime.fromtimestamp(...).isoformat()[:10]: the day the instant is in
DateOf(timestamp) == timestamp \div TicksPerDay

\* ensure_file_exists
InitialData ==
    [metadata |-> [created |-> ClockStart, last_updated |-> ClockStart],
     daily_stats |-> EmptyDict,
     sessions |-> <<>>,
     events |-> <<>>]

NewDailyStats ==
    [unique_sessions |-> {}, page_views |-> 0, tab_switches |-> 0,
     downloads |-> 0, session_starts |-> 0]

\* a count read back from the file starts an empty set again
AsSessionSet(unique_sessions) == {}

Bump(d, event_type) ==
    [d EXCEPT !.page_views = @ + (IF event_type = "page_view" THEN 1 ELSE 0),
              !.tab_switches = @ + (IF event_type = "tab_switch" THEN 1 ELSE 0),
              !.downloads = @ + (IF event_type = "download" THEN 1 ELSE 0),
              !.session_starts = @ + (IF event_type = "session_start" THEN 1 ELSE 0)]

\* the document add_event writes back
AddEventData(data, session_id, event, clock) ==
    LET event_record == [session_id |-> session_id, type |-> event.type,
                         timestamp |-> event.timestamp,
                         date |-> DateOf(event.timestamp),
                         data |-> IF event.data = <<>> THEN EmptyDict
                                  ELSE event.data[1]]
        date_key == event_record.date
        daily0 == IF date_key \in DOMAIN data.daily_stats
                  THEN [data.daily_stats[date_key] EXCEPT
                            !.unique_sessions = AsSessionSet(@)]
                  ELSE NewDailyStats
        daily1 == Bump([daily0 EXCEPT !.unique_sessions = @ \cup {session_id}],
                       event.type)
        daily == [daily1 EXCEPT !.unique_sessions = Cardinality(@)]
        cutoff_timestamp == clock - RetentionDays * TicksPerDay
    IN  [data EXCEPT
            !.events = SelectSeq(Append(@, event_record),
                                 LAMBDA e : e.timestamp > cutoff_timestamp),
            !.metadata.last_updated = clock,
            !.daily_stats = Put(@, date_key, daily)]

\* what the clients send
MaxEvents == 2
SessionIds == {"s1", "s2"}
EventTypes == {"page_view", "tab_switch", "download", "session_start", "heartbeat"}
EventTimestamps == {5 * TicksPerDay, ClockStart, ClockStart + TicksPerDay}
EventData == {<<>>}
Events == [type : EventTypes, timestamp : EventTimestamps, data : EventData]

\* AnalyticsStore.add_event, one call at a time under the store's lock
AddEvent ==
    \E session_id \in SessionIds, event \in Events :
        /\ Len(submitted) < MaxEvents
        /\ analytics_file' = AddEventData(analytics_file, session_id, event, WallClock)
        /\ submitted' = Append(submitted, [session_id |-> session_id,
                                           date |-> DateOf(event.timestamp)])
        /\ UNCHANGED <<store, performance_data, response, request, now, disk,
                       loader, service, enhanced>>

\* the process has just started and no candidate file is there yet
HostInit ==
    /\ now = 1
    /\ disk = [p \in Paths |-> NoFile]
    /\ cache = EmptyDict
    /\ cache_timestamps = EmptyDict
    /\ file_mod_times = EmptyDict
    /\ service = NewService
    /\ enhanced = NewEnhanced
    /\ analytics_file = InitialData
    /\ submitted = <<>>

\* the clock may run up to MaxTime
MaxTime == 3

Tick ==
    /\ now < MaxTime
    /\ now' = now + 1
    /\ UNCHANGED <<store, performance_data, response, request, disk, loader,
                   service, enhanced, tracking>>

\* a script outside the backend writes a file: the write takes time, so the
\* file's mtime is later than anything that happened before
WriteFile(filepath, content) ==
    /\ now < MaxTime
    /\ now' = now + 1
    /\ disk' = [disk EXCEPT ![filepath] = File(now', content)]
    /\ UNCHANGED <<store, performance_data, response, request, loader, service, enhanced, tracking>>

WriteTracker == \E c \in TrackerContents : WriteFile(CACHE_FILES[1], c)
WriteEnsNames == \E c \in EnsContents : WriteFile(ENS_NAMES_FILES[1], c)
WritePerformance == \E c \in PerformanceContents : WriteFile(cache_paths[1], c)

\* a file is removed
RemoveFile(filepath) ==
    /\ Exists(filepath)
    /\ disk' = [disk EXCEPT ![filepath] = NoFile]
    /\ UNCHANGED <<store, performance_data, response, request, now, loader,
                   service, enhanced, tracking>>

WritePerformanceFallback ==
    \E c \in PerformanceContents : WriteFile(cache_paths[2], c)
RemovePerformance == \E i \in DOMAIN cache_paths : RemoveFile(cache_paths[i])
WriteSyncCommittee ==
    \E i \in DOMAIN data_paths, c \in SyncContents : WriteFile(data_paths[i], c)
RemoveSyncCommittee == \E i \in DOMAIN data_paths : RemoveFile(data_paths[i])

GetOperatorSyncCommittee ==
    /\ \E operator \in {"0xA", "0xB"} :
          LET r == OperatorSyncCommittee(enhanced, operator)
          IN  /\ response' = r.reply
              /\ enhanced' = r.service
    /\ UNCHANGED <<store, performance_data, request, now, disk, loader, service, tracking>>

GetAllExitRecords ==
    /\ LET r == AllExitRecords(LoaderState)
       IN  /\ response' = r.reply
           /\ cache' = r.loader.cache
           /\ cache_timestamps' = r.loader.cache_timestamps
           /\ file_mod_times' = r.loader.file_mod_times
    /\ UNCHANGED <<store, performance_data, request, now, disk, service, enhanced, tracking>>

GetEnhancedExitData ==
    /\ LET r == EnhancedExitData(LoaderState)
       IN  /\ response' = r.reply
           /\ cache' = r.loader.cache
           /\ cache_timestamps' = r.loader.cache_timestamps
           /\ file_mod_times' = r.loader.file_mod_times
    /\ UNCHANGED <<store, performance_data, request, now, disk, service, enhanced, tracking>>

GetOperatorPerformance ==
    /\ \E operator \in {"0xA", "0xB"}, days \in {0, 1} :
          LET r == OperatorPerformance(service, operator, days)
          IN  /\ response' = r.reply
              /\ service' = r.service
    /\ UNCHANGED <<store, performance_data, request, now, disk, loader, enhanced, tracking>>

-----------------------------------------------------------------------------
(* Bounds of the model *)

\* the store holds at most this many rows in the detector's runs
MaxDownRows == 4
\* and at most this many in the runs of the corrected methodology
MaxCorrectedRows == 4
MaxSimpleRows == 3

-----------------------------------------------------------------------------
(* Actions *)

DownEpochs == {498, 499, 500}
DownValidators == {1, 2}
\* shapes of the rows ingested in the detector's runs
DownRows(v, e) ==
    { Row(v, e, Some(OperatorOf(v)), "active_ongoing", Some(1), Some(100), Some(0), Some(0)),
      Row(v, e, Some(OperatorOf(v)), "active_ongoing", Some(0), Some(0), Some(100), Some(0)),
      Row(v, e, Some(OperatorOf(v)), "active_ongoing", SqlNull, SqlNull, SqlNull, SqlNull),
      Row(v, e, Some(OperatorOf(v)), "exited", Some(0), Some(0), Some(0), Some(0)),
      Row(v, e, SqlNull, "active_ongoing", Some(0), Some(0), Some(100), Some(0)) }

HasRow(rows, v, e) == \E r \in rows : r.val_id = v /\ r.epoch = e

\* the monitor writes one row for (v, e); the table keeps one row per key
Ingest(r) ==
    /\ ~HasRow(store, r.val_id, r.epoch)
    /\ store' = store \cup {r}
    /\ response' = NoResponse
    /\ UNCHANGED <<performance_data, aux>>

IngestDown ==
    /\ Cardinality(store) < MaxDownRows
    /\ \E v \in DownValidators, e \in DownEpochs : \E r \in DownRows(v, e) : Ingest(r)

Limits == {1, 100}

GetValidatorsDown ==
    /\ \E limit \in Limits : response' = ValidatorsDownReply(store, limit)
    /\ UNCHANGED <<store, performance_data, aux>>

GetValidatorsDownExtended ==
    /\ \E epochs_back \in {2, 3}, limit \in Limits,
          test_operator \in {SqlNull, Some("Operator_0xA")} :
          response' = ValidatorsDownExtendedReply(store, epochs_back, limit, test_operator)
    /\ UNCHANGED <<store, performance_data, aux>>

Init ==
    /\ store = {}
    /\ performance_data = <<>>
    /\ response = NoResponse
    /\ request = NoRequest
    /\ HostInit

NextDown == IngestDown \/ GetValidatorsDown \/ GetValidatorsDownExtended
SpecDown == Init /\ [][NextDown]_vars

\* The corrected methodology: two operators, three validators, two epochs
CorrectedEpochs == {499, 500}
CorrectedValidators == {1, 2, 3}
CorrectedRows(v, e) ==
    { Row(v, e, Some(OperatorOf(v)), "active_ongoing", Some(1), Some(100), Some(0), Some(0)),
      Row(v, e, Some(OperatorOf(v)), "active_ongoing", Some(0), Some(0), Some(100), Some(150)),
      Row(v, e, Some(OperatorOf(v)), "active_ongoing", SqlNull, SqlNull, SqlNull, SqlNull),
      Row(v, e, Some(OperatorOf(v)), "pending_queued", SqlNull, Some(50), Some(50), Some(50)),
      Row(v, e, Some(OperatorOf(v)), "exited", Some(0), Some(0), Some(0), Some(0)) }

IngestCorrected ==
    /\ Cardinality(store) < MaxCorrectedRows
    /\ \E v \in CorrectedValidators, e \in CorrectedEpochs :
          \E r \in CorrectedRows(v, e) : Ingest(r)

\* calculate_corrected_theoretical_performance(operator_name, start_epoch, end_epoch)
CalculateCorrected ==
    /\ \E op \in Operators, w \in {<<499, 500>>, <<500, 500>>} :
          response' = CorrectedReply(store, op, w[1], w[2])
    /\ UNCHANGED <<store, performance_data, aux>>

GetTheoreticalPerformance ==
    /\ \E limit \in Limits : response' \in TheoreticalPerformanceReplies(store, limit)
    /\ UNCHANGED <<store, performance_data, aux>>

\* the detector, asked for the last two epochs
GetValidatorsDownLastTwo ==
    /\ response' = ValidatorsDownExtendedReply(store, 2, 100, SqlNull)
    /\ UNCHANGED <<store, performance_data, aux>>

NextCorrected ==
    \/ IngestCorrected
    \/ CalculateCorrected
    \/ GetTheoreticalPerformance
    \/ GetValidatorsDownLastTwo
SpecCorrected == Init /\ [][NextCorrected]_vars

\* The corrected denominator: attestations that earned the full reward, a
\* smaller reward, or nothing at all although they happened
DenominatorRows(v, e) ==
    { Row(v, e, Some(OperatorOf(v)), "active_ongoing", Some(1), Some(100), Some(0), Some(0)),
      Row(v, e, Some(OperatorOf(v)), "active_ongoing", Some(1), Some(60), Some(40), Some(0)),
      Row(v, e, Some(OperatorOf(v)), "active_ongoing", Some(1), Some(0), Some(100), Some(30)),
      Row(v, e, Some(OperatorOf(v)), "active_ongoing", Some(0), Some(0), Some(100), Some(150)) }

IngestDenominator ==
    /\ Cardinality(store) < MaxCorrectedRows
    /\ \E v \in CorrectedValidators, e \in CorrectedEpochs :
          \E r \in DenominatorRows(v, e) : Ingest(r)

NextDenominator == IngestDenominator \/ CalculateCorrected
SpecDenominator == Init /\ [][NextDenominator]_vars

\* Records outside active duty that carry rewards and penalties all the same:
\* two validators of the two operators, in the two epochs
AccumulationValidators == {1, 2}
AccumulationRows(v, e) ==
    { Row(v, e, Some(OperatorOf(v)), "active_ongoing", Some(1), Some(100), Some(0), Some(0)),
      Row(v, e, Some(OperatorOf(v)), "active_ongoing", Some(0), Some(0), Some(100), Some(150)),
      Row(v, e, Some(OperatorOf(v)), "pending_queued", SqlNull, Some(50), Some(50), Some(50)),
      Row(v, e, Some(OperatorOf(v)), "pending_initialized", Some(0), Some(70), SqlNull, Some(20)),
      Row(v, e, Some(OperatorOf(v)), "active_exiting", Some(1), Some(100), Some(10), Some(5)),
      Row(v, e, Some(OperatorOf(v)), "exited", Some(1), Some(100), Some(0), Some(0)) }

IngestAccumulation ==
    /\ Cardinality(store) < MaxCorrectedRows
    /\ \E v \in AccumulationValidators, e \in CorrectedEpochs :
          \E r \in AccumulationRows(v, e) : Ingest(r)

NextAccumulation == IngestAccumulation \/ CalculateCorrected \/ GetTheoreticalPerformance
SpecAccumulation == Init /\ [][NextAccumulation]_vars

\* Scenario A: validators 2 and 3 of Operator_0xA over epochs 498..500.  The
\* first attests in all three epochs earning 100; the second is pending for two
\* epochs and then active with a missed attestation.  What the scenario leaves
\* open (the pending status and rewards, how the miss is recorded, its missed
\* reward and penalty, the older history of the table) is drawn from small sets.
ScenarioOperator == "Operator_0xA"
ScenarioMissedRewards == {0, 50, 100}
ScenarioPenalties == {0, 25, 400}
ScenarioHistory ==
    { {},
      {Row(1, 276, Some(OperatorOf(1)), "active_ongoing", Some(1), Some(100), Some(0), Some(0))},
      {Row(1, 276, Some(OperatorOf(1)), "active_ongoing", Some(0), Some(0), Some(100), Some(0))} }
ScenarioA(pending, pending_earned, att, earned, m, p) ==
    {Row(2, e, Some(ScenarioOperator), "active_ongoing", Some(1), Some(100), Some(0), Some(0)) :
        e \in 498..500}
    \cup {Row(3, e, Some(ScenarioOperator), pending, SqlNull, pending_earned, SqlNull, SqlNull) :
        e \in 498..499}
    \cup {Row(3, 500, Some(ScenarioOperator), "active_ongoing", att, earned, Some(m), Some(p))}

InitScenarioA ==
    /\ \E pending \in {"pending_initialized", "pending_queued"},
          pending_earned \in {SqlNull, Some(0)},
          att \in {SqlNull, Some(0)}, earned \in {SqlNull, Some(0)},
          m \in ScenarioMissedRewards, p \in ScenarioPenalties,
          h \in ScenarioHistory :
          store = ScenarioA(pending, pending_earned, att, earned, m, p) \cup h
    /\ performance_data = <<>>
    /\ response = NoResponse
    /\ request = NoRequest
    /\ HostInit

CalculateCorrectedScenario ==
    /\ response' = CorrectedReply(store, ScenarioOperator, 498, 500)
    /\ UNCHANGED <<store, performance_data, aux>>

GetTheoreticalPerformanceExtended ==
    /\ \E days \in {1}, limit \in Limits :
          response' \in TheoreticalPerformanceExtendedReplies(store, days, limit)
    /\ UNCHANGED <<store, performance_data, aux>>

NextScenarioA ==
    \/ CalculateCorrectedScenario
    \/ GetTheoreticalPerformance
    \/ GetTheoreticalPerformanceExtended
SpecScenarioA == InitScenarioA /\ [][NextScenarioA]_vars

\* the comprehensive calculator's runs: rows with proposer and sync duties
MaxComprehensiveRows == 3
ComprehensiveEpochs == {499, 500}
ComprehensiveValidators == {1, 2, 3}
Attesting(v, e) ==
    Row(v, e, Some(OperatorOf(v)), "active_ongoing", Some(1), Some(100), Some(0), Some(0))
ComprehensiveRows(v, e) ==
    { Attesting(v, e),
      Row(v, e, Some(OperatorOf(v)), "active_ongoing", Some(0), Some(0), Some(100), Some(0)),
      [Attesting(v, e) EXCEPT !.is_proposer = Some(1), !.block_proposed = Some(1),
                              !.propose_earned_reward = Some(40)],
      [Attesting(v, e) EXCEPT !.is_proposer = Some(1), !.block_proposed = Some(1),
                              !.propose_earned_reward = Some(1000)],
      [Attesting(v, e) EXCEPT !.is_proposer = Some(1), !.block_proposed = Some(0)],
      [Attesting(v, e) EXCEPT !.is_sync = Some(1), !.sync_earned_reward = Some(10),
                              !.sync_missed_reward = Some(10)] }

IngestComprehensive ==
    /\ Cardinality(store) < MaxComprehensiveRows
    /\ \E v \in ComprehensiveValidators, e \in ComprehensiveEpochs :
          \E r \in ComprehensiveRows(v, e) : Ingest(r)

GetTheoreticalPerformanceAll ==
    /\ \E limit \in Limits :
          response' \in TheoreticalPerformanceAllReplies(store, limit)
    /\ UNCHANGED <<store, performance_data, aux>>

Days == {1, 2, 7}

GetTheoreticalPerformanceAllExtended ==
    /\ \E days \in Days, limit \in Limits :
          response' \in TheoreticalPerformanceAllExtendedReplies(store, days, limit)
    /\ UNCHANGED <<store, performance_data, aux>>

NextComprehensive ==
    \/ IngestComprehensive
    \/ GetTheoreticalPerformanceAll
    \/ GetTheoreticalPerformanceAllExtended
SpecComprehensive == Init /\ [][NextComprehensive]_vars

\* the window policies' runs: a table whose history is 1, 224, 225 or 500
\* epochs long, asked for 1, 2 or 7 days
MaxWindowRows == 2
WindowEpochs == {1, 276, 277, 500}
WindowValidators == {1, 2}
WindowRowShapes(v, e) ==
    { Attesting(v, e),
      Row(v, e, Some(OperatorOf(v)), "active_ongoing", Some(0), Some(0), Some(100), Some(0)),
      [Attesting(v, e) EXCEPT !.is_proposer = Some(1), !.block_proposed = Some(1),
                              !.propose_earned_reward = Some(40)] }

IngestWindow ==
    /\ Cardinality(store) < MaxWindowRows
    /\ \E v \in WindowValidators, e \in WindowEpochs :
          \E r \in WindowRowShapes(v, e) : Ingest(r)

Thresholds == {90, 97}

GetBelowThreshold ==
    /\ \E limit \in Limits : response' = BelowThresholdReply(store, limit)
    /\ UNCHANGED <<store, performance_data, aux>>

GetBelowThresholdExtended ==
    /\ \E days \in Days, threshold \in Thresholds, limit \in Limits :
          response' = BelowThresholdExtendedReply(store, days, threshold, limit)
    /\ UNCHANGED <<store, performance_data, aux>>

GetTheoreticalPerformanceExtendedDays ==
    /\ \E days \in Days, limit \in Limits :
          response' \in TheoreticalPerformanceExtendedReplies(store, days, limit)
    /\ UNCHANGED <<store, performance_data, aux>>

NextWindow ==
    \/ IngestWindow
    \/ GetBelowThreshold
    \/ GetBelowThresholdExtended
    \/ GetTheoreticalPerformance
    \/ GetTheoreticalPerformanceExtendedDays
    \/ GetTheoreticalPerformanceAll
    \/ GetTheoreticalPerformanceAllExtended
SpecWindow == Init /\ [][NextWindow]_vars

\* The rankings: two operators over one day, with proposals that pay less and
\* more than the period's average
RankingEpochs == {276, 500}
RankingValidators == {1, 2}
RankingRows(v, e) ==
    { Attesting(v, e),
      Row(v, e, Some(OperatorOf(v)), "active_ongoing", Some(0), Some(0), Some(100), Some(0)),
      [Attesting(v, e) EXCEPT !.is_proposer = Some(1), !.block_proposed = Some(1),
                              !.propose_earned_reward = Some(40)],
      [Row(v, e, Some(OperatorOf(v)), "active_ongoing", Some(0), Some(0), Some(100), Some(0))
          EXCEPT !.is_proposer = Some(1), !.block_proposed = Some(1),
                 !.propose_earned_reward = Some(200)] }

IngestRanking ==
    /\ Cardinality(store) < MaxComprehensiveRows
    /\ \E v \in RankingValidators, e \in RankingEpochs :
          \E r \in RankingRows(v, e) : Ingest(r)

NextRanking ==
    \/ IngestRanking
    \/ GetTheoreticalPerformance
    \/ GetTheoreticalPerformanceExtendedDays
    \/ GetTheoreticalPerformanceAll
    \/ GetTheoreticalPerformanceAllExtended
SpecRanking == Init /\ [][NextRanking]_vars

\* A request whose query delivers one row with a cell that int() / float()
\* cannot coerce (the null marker where a number is expected).  delivered is
\* the list the rows would make, malformed the position of the bad row
RemoveAt(seq, i) == [j \in 1..(Len(seq) - 1) |-> IF j < i THEN seq[j] ELSE seq[j + 1]]

WithMalformed(reply, delivered, bad) ==
    [f \in DOMAIN reply \cup {"delivered", "malformed"} |->
        IF f = "delivered" THEN delivered
        ELSE IF f = "malformed" THEN bad ELSE reply[f]]

DeliversRows(reply) ==
    reply.status = 200 /\ "results" \in DOMAIN reply /\ Len(reply.results) > 0

\* the loops with `except (ValueError, TypeError): ... continue` around the row
SkippingLoop(reply, bad) ==
    WithMalformed([reply EXCEPT !.results = RemoveAt(@, bad)], reply.results, bad)
\* the loops without it: the error reaches the handler's `except Exception`
AbortingLoop(reply, bad) ==
    WithMalformed(QueryFailed(reply.endpoint), reply.results, bad)

GetTheoreticalPerformanceMalformed ==
    /\ \E reply \in TheoreticalPerformanceReplies(store, 100) :
          /\ DeliversRows(reply)
          /\ \E bad \in DOMAIN reply.results : response' = SkippingLoop(reply, bad)
    /\ UNCHANGED <<store, performance_data, aux>>

GetTheoreticalPerformanceExtendedMalformed ==
    /\ \E reply \in TheoreticalPerformanceExtendedReplies(store, 1, 100) :
          /\ DeliversRows(reply)
          /\ \E bad \in DOMAIN reply.results : response' = AbortingLoop(reply, bad)
    /\ UNCHANGED <<store, performance_data, aux>>

GetTheoreticalPerformanceAllMalformed ==
    /\ \E reply \in TheoreticalPerformanceAllReplies(store, 100) :
          /\ DeliversRows(reply)
          /\ \E bad \in DOMAIN reply.results : response' = SkippingLoop(reply, bad)
    /\ UNCHANGED <<store, performance_data, aux>>

GetTheoreticalPerformanceAllExtendedMalformed ==
    /\ \E reply \in TheoreticalPerformanceAllExtendedReplies(store, 1, 100) :
          /\ DeliversRows(reply)
          /\ \E bad \in DOMAIN reply.results : response' = SkippingLoop(reply, bad)
    /\ UNCHANGED <<store, performance_data, aux>>

GetBelowThresholdMalformed ==
    /\ LET reply == BelowThresholdReply(store, 100)
       IN  /\ DeliversRows(reply)
           /\ \E bad \in DOMAIN reply.results : response' = AbortingLoop(reply, bad)
    /\ UNCHANGED <<store, performance_data, aux>>

GetBelowThresholdExtendedMalformed ==
    /\ LET reply == BelowThresholdExtendedReply(store, 1, DEFAULT_THRESHOLD, 100)
       IN  /\ DeliversRows(reply)
           /\ \E bad \in DOMAIN reply.results : response' = AbortingLoop(reply, bad)
    /\ UNCHANGED <<store, performance_data, aux>>

\* the calculator's one row: any error of the extraction is "Calculation failed"
CalculateCorrectedMalformed ==
    /\ \E op \in Operators :
          /\ CorrectedData(store, op, 276, 500) # {}
          /\ response' = WithMalformed(CorrectedError(op, 276, 500, "Calculation failed"),
                                       <<op>>, 1)
    /\ UNCHANGED <<store, performance_data, aux>>

NextMalformed ==
    \/ IngestRanking
    \/ GetTheoreticalPerformanceMalformed
    \/ GetTheoreticalPerformanceExtendedMalformed
    \/ GetTheoreticalPerformanceAllMalformed
    \/ GetTheoreticalPerformanceAllExtendedMalformed
    \/ GetBelowThresholdMalformed
    \/ GetBelowThresholdExtendedMalformed
    \/ CalculateCorrectedMalformed
SpecMalformed == Init /\ [][NextMalformed]_vars

\* GET /theoretical_performance_all query by query, while the monitor goes on
\* writing rows: the handler sends four queries one after the other, and each
\* is answered from the table as it is at that moment.  snapshots collects the
\* tables the request has lived through
InFlight == request.step \in {"min_epoch", "baseline", "aggregate"}

IngestWhileServing ==
    /\ Cardinality(store) < MaxComprehensiveRows
    /\ \E v \in RankingValidators, e \in RankingEpochs :
          \E r \in RankingRows(v, e) :
             /\ ~HasRow(store, r.val_id, r.epoch)
             /\ store' = store \cup {r}
    /\ response' = NoResponse
    /\ request' = IF InFlight THEN [request EXCEPT !.snapshots = @ \cup {store'}]
                  ELSE NoRequest
    /\ UNCHANGED <<performance_data, host>>

\* SELECT MAX(epoch) ...
QueryLatestEpoch ==
    /\ ~InFlight
    /\ IF ~HasEpochData(store)
       THEN /\ response' = QueryFailed("theoretical_performance_all")
            /\ request' = [step |-> "done", snapshots |-> {store}, limit |-> 100]
       ELSE /\ response' = NoResponse
            /\ request' = [step |-> "min_epoch", snapshots |-> {store}, limit |-> 100,
                           latest_epoch |-> LatestEpoch(store)]
    /\ UNCHANGED <<store, performance_data, host>>

\* SELECT MIN(epoch) ...
QueryMinEpoch ==
    /\ request.step = "min_epoch"
    /\ request' = [step |-> "baseline", snapshots |-> request.snapshots,
                   limit |-> request.limit, latest_epoch |-> request.latest_epoch,
                   min_available_epoch |-> MinAvailableEpoch(store)]
    /\ UNCHANGED <<store, performance_data, response, host>>

\* SELECT AVG(propose_earned_reward) ...
QueryBaseline ==
    /\ request.step = "baseline"
    /\ LET w == ClampWindow(request.latest_epoch, request.min_available_epoch,
                            EPOCHS_PER_DAY)
           base == BaselineRows(store, w.start_epoch, request.latest_epoch)
       IN  IF base = {}
           THEN /\ response' = QueryFailed("theoretical_performance_all")
                /\ request' = [step |-> "done", snapshots |-> request.snapshots,
                               limit |-> request.limit]
           ELSE /\ response' = NoResponse
                /\ request' =
                      [step |-> "aggregate", snapshots |-> request.snapshots,
                       limit |-> request.limit,
                       latest_epoch |-> request.latest_epoch,
                       min_available_epoch |-> request.min_available_epoch,
                       avg_sum |-> SumFn([r \in base |-> r.propose_earned_reward[1]]),
                       avg_cnt |-> Cardinality(base)]
    /\ UNCHANGED <<store, performance_data, host>>

\* the ranking query and the loop
QueryAggregate ==
    /\ request.step = "aggregate"
    /\ response' \in ComprehensiveList("theoretical_performance_all", store,
                                       request.latest_epoch,
                                       request.min_available_epoch,
                                       request.avg_sum, request.avg_cnt,
                                       EPOCHS_PER_DAY, request.limit)
    /\ request' = [step |-> "done", snapshots |-> request.snapshots,
                   limit |-> request.limit]
    /\ UNCHANGED <<store, performance_data, host>>

NextSnapshot ==
    \/ IngestWhileServing
    \/ QueryLatestEpoch
    \/ QueryMinEpoch
    \/ QueryBaseline
    \/ QueryAggregate
SpecSnapshot == Init /\ [][NextSnapshot]_vars

\* The file-backed views next to a nodeset efficiency endpoint, while the
\* scripts outside the backend rewrite the files
NextExits ==
    \/ Tick
    \/ WriteTracker
    \/ WriteEnsNames
    \/ WritePerformance
    \/ GetAllExitRecords
    \/ GetEnhancedExitData
    \/ GetOperatorPerformance
    \/ (/\ store = {}
        /\ IngestRanking
        /\ store' \subseteq {Attesting(v, 500) : v \in RankingValidators})
    \/ GetTheoreticalPerformanceAll
SpecExits == Init /\ [][NextExits]_vars

\* GET /validators_down/extended with its query parameter as the caller sends
\* it: epochs_back: int = Query(2, ge=2, le=10); a value out of the range is
\* turned down by the validation of the framework with a 422
EpochsBackLeast == 2
EpochsBackMost == 10
ResolveEpochsBackThree(supplied) ==
    IF supplied = SqlNull THEN FixedDownEpochs ELSE supplied[1]
ResolveEpochsBack(supplied) ==
    IF supplied = SqlNull THEN 2 ELSE supplied[1]
SuppliedEpochsBack == {SqlNull} \cup {Some(k) : k \in {1, 2, 3, 10, 11}}

GetValidatorsDownExtendedQuery ==
    /\ \E supplied \in SuppliedEpochsBack, limit \in Limits :
          LET epochs_back == ResolveEpochsBack(supplied)
          IN  response' =
                IF epochs_back < EpochsBackLeast \/ epochs_back > EpochsBackMost
                THEN [endpoint |-> "validators_down/extended", status |-> 422,
                      supplied |-> supplied]
                ELSE Put(ValidatorsDownExtendedReply(store, epochs_back, limit,
                                                     SqlNull),
                         "supplied", supplied)
    /\ UNCHANGED <<store, performance_data, aux>>

NextDetectorWindow ==
    IngestDown \/ GetValidatorsDown \/ GetValidatorsDownExtendedQuery
SpecDetectorWindow == Init /\ [][NextDetectorWindow]_vars

\* load_validator_data statement by statement, while a script outside the
\* backend rewrites the candidate files: _get_cached_or_load calls
\* loader_func(), stores the result and the time, and only then asks the file
\* system for the modification times it records
Loading == request.step = "record_mod_times"

WriteTrackerFallback == \E c \in TrackerContents : WriteFile(CACHE_FILES[2], c)

\* the clear_cache that is in force (the second definition of the module)
ClearCache ==
    /\ ~Loading
    /\ cache' = EmptyDict
    /\ cache_timestamps' = EmptyDict
    /\ response' = [endpoint |-> "clear_cache", status |-> 0]
    /\ UNCHANGED <<store, performance_data, request, now, disk, file_mod_times,
                   service, enhanced, tracking>>

\* the call up to the assignment of _cache_timestamps[key]
LoadValidatorDataCall ==
    /\ ~Loading
    /\ IF CacheValid(LoaderState, "validator_data", ValidatorDataTtl, CACHE_FILES)
       THEN /\ response' = [endpoint |-> "load_validator_data", status |-> 0,
                            value |-> cache["validator_data"],
                            invoked |-> FALSE, at |-> now]
            /\ UNCHANGED <<request, loader>>
       ELSE /\ cache' = Put(cache, "validator_data", LoadFirst(CACHE_FILES))
            /\ cache_timestamps' = Put(cache_timestamps, "validator_data", now)
            /\ request' = [step |-> "record_mod_times"]
            /\ response' = NoResponse
            /\ UNCHANGED file_mod_times
    /\ UNCHANGED <<store, performance_data, now, disk, service, enhanced, tracking>>

\* _file_mod_times[key] = {filepath: _get_file_mod_time(filepath) ...}; return
RecordModTimes ==
    /\ Loading
    /\ file_mod_times' =
          Put(file_mod_times, "validator_data",
              [p \in Range(CACHE_FILES) |-> GetFileModTime(p)])
    /\ response' = [endpoint |-> "load_validator_data", status |-> 0,
                    value |-> cache["validator_data"],
                    invoked |-> TRUE, at |-> now]
    /\ request' = NoRequest
    /\ UNCHANGED <<store, performance_data, now, disk, cache, cache_timestamps,
                   service, enhanced, tracking>>

NextLoader ==
    \/ Tick
    \/ WriteTracker
    \/ WriteTrackerFallback
    \/ ClearCache
    \/ LoadValidatorDataCall
    \/ RecordModTimes
SpecLoader == Init /\ [][NextLoader]_vars

\* The two file-backed services while their candidate files are written and
\* removed
NextServices ==
    \/ WritePerformance
    \/ WritePerformanceFallback
    \/ RemovePerformance
    \/ GetOperatorPerformance
    \/ WriteSyncCommittee
    \/ RemoveSyncCommittee
    \/ GetOperatorSyncCommittee
SpecServices == Init /\ [][NextServices]_vars

\* the analytics store while the clock runs
NextAnalytics ==
    \/ Tick
    \/ AddEvent

SpecAnalytics == Init /\ [][NextAnalytics]_vars

\* The simple methodology: two validators over a day that starts at epoch
\* 276, with records in and out of active duty, penalties and null fields
SimpleEpochs == {276, 499, 500}
SimpleValidators == {1, 2}
SimpleRows(v, e) ==
    { Attesting(v, e),
      Row(v, e, Some(OperatorOf(v)), "active_ongoing", Some(1), Some(60), Some(40), Some(30)),
      Row(v, e, Some(OperatorOf(v)), "active_ongoing", SqlNull, SqlNull, Some(100), Some(150)),
      Row(v, e, Some(OperatorOf(v)), "pending_queued", SqlNull, Some(50), SqlNull, Some(50)),
      Row(v, e, Some(OperatorOf(v)), "exited", Some(0), Some(0), Some(100), Some(0)) }

IngestSimple ==
    /\ Cardinality(store) < MaxSimpleRows
    /\ \E v \in SimpleValidators, e \in SimpleEpochs :
          \E r \in SimpleRows(v, e) : Ingest(r)

NextSimple ==
    \/ IngestSimple
    \/ GetBelowThreshold
    \/ GetBelowThresholdExtended
SpecSimple == Init /\ [][NextSimple]_vars

\* The below-threshold selection: three validators of two operators with
\* records at 60 and 97 percent, exited ones and ones of no operator
BelowValidators == {1, 2, 3}
BelowEpochs == {276, 500}
BelowRows(v, e) ==
    { Row(v, e, Some(OperatorOf(v)), "active_ongoing", Some(1), Some(60), Some(40), Some(0)),
      Row(v, e, Some(OperatorOf(v)), "active_ongoing", Some(1), Some(97), Some(3), Some(0)),
      Row(v, e, Some(OperatorOf(v)), "exited", Some(0), Some(0), Some(100), Some(0)),
      Row(v, e, SqlNull, "active_ongoing", Some(0), Some(0), Some(100), Some(0)) }

IngestBelow ==
    /\ Cardinality(store) < MaxSimpleRows
    /\ \E v \in BelowValidators, e \in BelowEpochs :
          \E r \in BelowRows(v, e) : Ingest(r)

NextBelow ==
    \/ IngestBelow
    \/ GetBelowThreshold
    \/ GetBelowThresholdExtended
SpecBelow == Init /\ [][NextBelow]_vars

\* the relative score's runs: a validators file of up to three validators
MaxPerformanceValidators == 3
PerformanceIndexes == {1, 2, 3}
PerformanceValues == {-50, 0, 50, 100}

\* the performance file gains the record of one more validator
LoadPerformance ==
    /\ Len(performance_data) < MaxPerformanceValidators
    /\ \E v \in PerformanceIndexes, g \in PerformanceValues, x, n \in BOOLEAN :
          /\ \A i \in DOMAIN performance_data : performance_data[i].validator_index # v
          /\ performance_data' =
                Append(performance_data,
                       [validator_index |-> v, operator |-> OperatorOf(v),
                        performance_gwei |-> g, excluded |-> x, recent |-> n])
    /\ response' = NoResponse
    /\ UNCHANGED <<store, aux>>

GetAttestationPerformance ==
    /\ response' = AttestationPerformanceReply(performance_data)
    /\ UNCHANGED <<store, performance_data, aux>>

GetAttestationOnlyPerformance ==
    /\ response' = AttestationOnlyReply(performance_data)
    /\ UNCHANGED <<store, performance_data, aux>>

NextRelative ==
    \/ LoadPerformance
    \/ GetAttestationPerformance
    \/ GetAttestationOnlyPerformance
SpecRelative == Init /\ [][NextRelative]_vars

-----------------------------------------------------------------------------
(* Consecutive-miss detector: properties *)

\* the rows of validator v in the k epochs ending at latest
WindowRows(rows, v, k, latest) ==
    {r \in rows : r.val_id = v /\ r.epoch >= latest - k + 1 /\ r.epoch <= latest}

IsMiss(r) == r.att_happened = Some(0) \/ r.att_happened = SqlNull

\* exactly k rows in the window, all of them misses, latest status not terminal
IsDown(rows, v, k, latest) ==
    /\ Cardinality(WindowRows(rows, v, k, latest)) = k
    /\ \A r \in WindowRows(rows, v, k, latest) : IsMiss(r)
    /\ \A r \in WindowRows(rows, v, k, latest) :
          r.epoch = latest => r.val_status \notin ExcludedStatuses

\* operator-assigned in the window: every row of the window names an operator
IsAssigned(rows, v, k, latest) ==
    \A r \in WindowRows(rows, v, k, latest) : r.val_nos_name # SqlNull

IsDownReply == response.endpoint \in {"validators_down", "validators_down/extended"}
               /\ response.status = 200

ReturnedValidators == {response.results[i].validator_id : i \in DOMAIN response.results}

AllValidators(rows) == {r.val_id : r \in rows}

\* C1 as stated: every validator either endpoint returns is down, whatever the
\* request (the test_operator requests included)
C1_SoundnessAnyRequest ==
    IsDownReply =>
        \A v \in ReturnedValidators :
            IsDown(store, v, response.epochs_back, LatestEpoch(store))

\* C1 (amended): in a reply to a request that supplies no test_operator, every
\* validator returned as down has exactly K rows in [latest-K+1, latest], all K
\* of them misses (att_happened 0 or null), and a status in the latest epoch
\* that is not exited, withdrawal_possible or withdrawal_done
C1_Soundness ==
    (IsDownReply /\ response.test_operator = SqlNull) =>
        \A v \in ReturnedValidators :
            IsDown(store, v, response.epochs_back, LatestEpoch(store))

\* a validator is returned while another one, with K-1 misses and a gap or a
\* hit in the window, is not
C1_Witness ==
    /\ IsDownReply /\ response.test_operator = SqlNull
    /\ ReturnedValidators # {}
    /\ \E v \in AllValidators(store) \ ReturnedValidators :
          LET w == WindowRows(store, v, response.epochs_back, LatestEpoch(store))
          IN  Cardinality({r \in w : IsMiss(r)}) = response.epochs_back - 1

DownAndAssigned(rows, k, latest) ==
    {v \in AllValidators(rows) : IsDown(rows, v, k, latest) /\ IsAssigned(rows, v, k, latest)}

\* C2 as stated: every down, operator-assigned validator is returned when the
\* limit leaves room, whatever the request
C2_CompletenessAnyRequest ==
    IsDownReply =>
        LET down == DownAndAssigned(store, response.epochs_back, LatestEpoch(store))
        IN  Cardinality(down) <= response.limit => down \subseteq ReturnedValidators

\* C2 (amended): in a reply to a request that supplies no test_operator, every
\* validator with exactly K operator-assigned rows in the window, all misses,
\* and a non-excluded latest status is returned, provided the number of such
\* validators does not exceed the limit
C2_Completeness ==
    (IsDownReply /\ response.test_operator = SqlNull) =>
        LET down == DownAndAssigned(store, response.epochs_back, LatestEpoch(store))
        IN  Cardinality(down) <= response.limit => down \subseteq ReturnedValidators

\* two validators are down, one of them through null att_happened, and both
\* are returned
C2_Witness ==
    /\ IsDownReply /\ response.test_operator = SqlNull
    /\ Cardinality(DownAndAssigned(store, response.epochs_back, LatestEpoch(store))) = 2
    /\ Cardinality(ReturnedValidators) = 2
    /\ \E r \in store : r.att_happened = SqlNull /\ r.val_id \in ReturnedValidators

-----------------------------------------------------------------------------
(* Duty aggregator: properties *)

IsCorrectedOk == response.endpoint = "corrected" /\ response.status = "ok"
IsPerformanceReply ==
    response.endpoint = "theoretical_performance" /\ response.status = 200

\* the aggregates a reply reports, each with the window it was taken over
ReportedAggregates ==
    IF IsCorrectedOk
    THEN {[operator |-> response.operator, start_epoch |-> response.start_epoch,
           end_epoch |-> response.end_epoch, agg |-> response.agg,
           missing_data_points |-> response.missing_data_points,
           max_num |-> response.agg.active_duty_periods
                          * response.avg_reward_per_attestation.sum,
           max_den |-> response.avg_reward_per_attestation.cnt,
           percent |-> response.corrected_theoretical_performance]}
    ELSE IF IsPerformanceReply
    THEN {[operator |-> x.operator, start_epoch |-> x.start_epoch,
           end_epoch |-> x.latest_epoch, agg |-> x.agg,
           missing_data_points |-> x.missing_data_points,
           max_num |-> x.max_possible_rewards, max_den |-> 1,
           percent |-> x.operator_reward_percentage] : x \in Range(response.results)}
    ELSE {}

\* the store's rows an aggregate is about: the operator's rows of the window
\* whose status is not terminal
RowsOf(g) ==
    {r \in store : /\ r.val_nos_name = Some(g.operator)
                   /\ r.epoch \in g.start_epoch..g.end_epoch
                   /\ r.val_status \notin ExcludedStatuses}

\* the store with att_happened of row x set to null
NullOut(rows, x) == (rows \ {x}) \cup {[x EXCEPT !.att_happened = SqlNull]}

SameReplyOn(rows) ==
    CASE response.endpoint = "corrected" ->
            response = CorrectedReply(rows, response.operator,
                                      response.start_epoch, response.end_epoch)
      [] IsPerformanceReply ->
            response \in TheoreticalPerformanceReplies(rows, response.limit)
      [] IsDownReply ->
            response = ValidatorsDownExtendedReply(rows, response.epochs_back,
                                                   response.limit, response.test_operator)
      [] OTHER -> TRUE

\* C3: a row with att_happened = null counts exactly like one with
\* att_happened = 0: missed_attestations is the number of active rows whose
\* attestation is 0 or null, successful_attestations the number whose
\* attestation is 1, and replacing 0 by null in any row of the store leaves the
\* reply of the aggregator and of the detector unchanged
C3_NullAsMiss ==
    /\ \A g \in ReportedAggregates :
          /\ g.agg.missed_attestations =
                Cardinality({r \in RowsOf(g) : r.val_status = "active_ongoing"
                                               /\ r.att_happened # Some(1)})
          /\ g.agg.successful_attestations =
                Cardinality({r \in RowsOf(g) : r.val_status = "active_ongoing"
                                               /\ r.att_happened = Some(1)})
    /\ \A x \in store : x.att_happened = Some(0) => SameReplyOn(NullOut(store, x))

\* an aggregate counts a null and a zero attestation, and the detector returns
\* a validator it would not return if null were a hit
C3_Witness ==
    \/ \E g \in ReportedAggregates :
          /\ \E r \in RowsOf(g) : r.val_status = "active_ongoing" /\ r.att_happened = SqlNull
          /\ \E r \in RowsOf(g) : r.val_status = "active_ongoing" /\ r.att_happened = Some(0)
          /\ g.agg.missed_attestations >= 2
    \/ /\ IsDownReply
       /\ \E v \in ReturnedValidators :
             /\ \E r \in store : r.val_id = v /\ r.att_happened = SqlNull
             /\ \E r \in store : r.val_id = v /\ r.att_happened = Some(0)

\* C4: total_data_points <= expected_total_epochs = validator_count *
\* epochs_in_period, epochs_in_period being the length of the window, and
\* missing_data_points = expected_total_epochs - total_data_points >= 0
C4_CoverageIdentity ==
    \A g \in ReportedAggregates :
        /\ g.agg.epochs_in_period = g.end_epoch - g.start_epoch + 1
        /\ g.agg.validator_count = Cardinality({r.val_id : r \in RowsOf(g)})
        /\ g.agg.total_data_points = Cardinality(RowsOf(g))
        /\ g.agg.expected_total_epochs = g.agg.validator_count * g.agg.epochs_in_period
        /\ g.agg.total_data_points <= g.agg.expected_total_epochs
        /\ g.missing_data_points = g.agg.expected_total_epochs - g.agg.total_data_points
        /\ g.missing_data_points >= 0

\* an aggregate over two validators and two epochs misses one data point
C4_Witness ==
    \E g \in ReportedAggregates :
        /\ g.agg.validator_count = 2 /\ g.agg.epochs_in_period = 2
        /\ g.agg.total_data_points = 3 /\ g.missing_data_points = 1

\* C5: net_rewards = total_actual_rewards - total_penalties, both summed over
\* the active-duty rows only, and when it is negative (with a positive
\* max_possible_rewards) the reported percent is net_rewards /
\* max_possible_rewards * 100, a negative value: no floor is applied
C5_NetRewardBound ==
    \A g \in ReportedAggregates :
        LET active == {r \in RowsOf(g) : r.val_status = "active_ongoing"}
        IN  /\ g.agg.total_actual_rewards =
                  SumFn([r \in active |-> Coalesce0(r.att_earned_reward)])
            /\ g.agg.total_penalties =
                  SumFn([r \in active |-> Coalesce0(r.att_penalty)])
            /\ g.agg.net_rewards = g.agg.total_actual_rewards - g.agg.total_penalties
            /\ (g.agg.net_rewards < 0 /\ g.max_num > 0) =>
                  /\ PctEq(g.percent, Pct(g.agg.net_rewards * g.max_den, g.max_num))
                  /\ g.percent.num < 0

\* penalties exceed rewards and a negative percent is reported
C5_Witness ==
    \E g \in ReportedAggregates :
        /\ g.agg.total_penalties > g.agg.total_actual_rewards
        /\ g.agg.total_actual_rewards > 0
        /\ g.percent.num < 0
        /\ \E r \in RowsOf(g) : r.val_status = "pending_queued"

-----------------------------------------------------------------------------
(* Operator rollups on Scenario A: properties *)

\* the scenario operator's entry in a reply of either rollup endpoint
ScenarioEntries(ep) ==
    IF response.endpoint = ep /\ response.status = 200 /\ "results" \in DOMAIN response
    THEN {x \in Range(response.results) : x.operator = ScenarioOperator}
    ELSE {}

\* the missed reward and the penalty of the one missed attestation
ScenarioMiss == CHOOSE r \in store : r.val_id = 3 /\ r.epoch = 500
ScenarioM == Coalesce0(ScenarioMiss.att_missed_reward)
ScenarioP == Coalesce0(ScenarioMiss.att_penalty)

-----------------------------------------------------------------------------
(* Comprehensive calculator: properties *)

IsComprehensiveReply ==
    /\ response.endpoint \in {"theoretical_performance_all",
                              "theoretical_performance_all/extended"}
    /\ response.status = 200

ComprehensiveResults == IF IsComprehensiveReply THEN Range(response.results) ELSE {}

\* the proposer term of the blended numerator, as the reply shows it
ProposerTerm(x) ==
    x.total_actual_reward - x.attester_actual_reward - x.sync_actual_reward

\* C7: the proposer term of the blended numerator is min(proposer_actual,
\* proposer_ideal) and never exceeds proposer_ideal; an operator whose attester
\* and sync actuals do not exceed their ideals has overall_efficiency <= 100
C7_ProposerCap ==
    \A x \in ComprehensiveResults :
        /\ ProposerTerm(x) = Min2(x.proposer_actual_reward, x.proposer_ideal_reward)
        /\ ProposerTerm(x) <= x.proposer_ideal_reward
        /\ (x.attester_actual_reward <= x.attester_ideal_reward
            /\ x.sync_actual_reward <= x.sync_ideal_reward)
           => x.overall_efficiency.num <= x.overall_efficiency.den

\* an operator whose one proposal paid more than its ideal is reported at 100
C7_Witness ==
    \E x \in ComprehensiveResults :
        /\ x.proposer_actual_reward > x.proposer_ideal_reward
        /\ x.proposer_ideal_reward > 0
        /\ PctIs(x.overall_efficiency, 100)

\* the operator's rows the reply of x was computed over
OperatorRecords(x) ==
    {r \in store : /\ r.val_nos_name = Some(x.operator)
                   /\ r.epoch >= x.start_epoch /\ r.epoch <= x.latest_epoch
                   /\ r.val_status \notin ExcludedStatuses}
ValueOf(c) == IF IsNull(c) THEN 0 ELSE c[1]
HasDuty(c) == ~IsNull(c) /\ c[1] = 1

\* C16: for every operator overall_efficiency is (attester_actual +
\* min(proposer_actual, proposer_ideal) + sync_actual) over (attester_ideal +
\* proposer_ideal + sync_ideal), times 100, and 0 when the total ideal is 0; a
\* duty type with no duty in the window adds 0 to both sums, and with no
\* sync-committee duty sync_efficiency is 0 and the denominator is
\* attester_ideal + proposer_ideal.
C16_OverallEfficiency ==
    \A x \in ComprehensiveResults :
        LET recs == OperatorRecords(x)
            attester_actual == SumFn([r \in recs |-> ValueOf(r.att_earned_reward)])
            attester_ideal ==
                SumFn([r \in recs |-> ValueOf(r.att_earned_reward)
                                       + ValueOf(r.att_missed_reward)])
            proposer_actual ==
                SumFn([r \in recs |-> IF HasDuty(r.is_proposer)
                                      THEN ValueOf(r.propose_earned_reward) ELSE 0])
            proposer_ideal == x.proposer_ideal_reward
            sync_actual ==
                SumFn([r \in recs |-> IF HasDuty(r.is_sync)
                                      THEN ValueOf(r.sync_earned_reward) ELSE 0])
            sync_ideal ==
                SumFn([r \in recs |-> IF HasDuty(r.is_sync)
                                      THEN ValueOf(r.sync_earned_reward)
                                           + ValueOf(r.sync_missed_reward) ELSE 0])
            ideal == attester_ideal + proposer_ideal + sync_ideal
        IN  /\ x.attester_actual_reward = attester_actual
            /\ x.attester_ideal_reward = attester_ideal
            /\ x.proposer_actual_reward = proposer_actual
            /\ x.sync_actual_reward = sync_actual
            /\ x.sync_ideal_reward = sync_ideal
            /\ x.total_ideal_reward = ideal
            /\ ideal > 0 =>
                  PctEq(x.overall_efficiency,
                        Pct(attester_actual + Min2(proposer_actual, proposer_ideal)
                               + sync_actual, ideal))
            /\ ideal = 0 => x.overall_efficiency.num = 0
            /\ (\A r \in recs : ~HasDuty(r.is_proposer)) =>
                  proposer_actual = 0 /\ proposer_ideal = 0
            /\ (\A r \in recs : ~HasDuty(r.is_sync)) =>
                  /\ sync_actual = 0 /\ sync_ideal = 0
                  /\ x.sync_efficiency.num = 0
                  /\ x.total_ideal_reward = attester_ideal + proposer_ideal

\* one operator with sync-committee duty (10 of 20) next to an attestation and a
\* proposal, and in the same reply one operator with no sync duty
C16_Witness ==
    /\ \E x \in ComprehensiveResults :
          /\ x.sync_ideal_reward = 20 /\ x.sync_actual_reward = 10
          /\ x.proposer_ideal_reward > 0
          /\ x.total_ideal_reward = x.attester_ideal_reward + x.proposer_ideal_reward + 20
    /\ \E x \in ComprehensiveResults :
          /\ x.total_sync_duties = 0
          /\ x.total_ideal_reward > 0
          /\ x.sync_efficiency.num = 0

\* the constant the handlers name as the fallback average
FallbackAverage == 47000000

\* the records of the window, of any operator, that successfully proposed
SuccessfulProposals(start_epoch, latest_epoch) ==
    {r \in store : /\ r.epoch >= start_epoch /\ r.epoch <= latest_epoch
                   /\ HasDuty(r.is_proposer) /\ HasDuty(r.block_proposed)}

\* C17: a request to a comprehensive endpoint over a table that holds epoch
\* data is answered with a list in which every operator's proposer_ideal is
\* its number of proposer duties times one baseline: the mean
\* propose_earned_reward over all successful proposals of the window, of any
\* operator, or 47000000 if the window holds no successful proposal.
C17_ProposerBaseline ==
    (/\ response.endpoint \in {"theoretical_performance_all",
                               "theoretical_performance_all/extended"}
     /\ HasEpochData(store)) =>
        /\ response.status = 200
        /\ \A x \in Range(response.results) :
              LET proposals == SuccessfulProposals(x.start_epoch, x.latest_epoch)
                  duties ==
                      Cardinality({r \in OperatorRecords(x) : HasDuty(r.is_proposer)})
              IN  IF proposals = {}
                  THEN x.proposer_ideal_reward = duties * FallbackAverage
                  ELSE x.proposer_ideal_reward * Cardinality(proposals) =
                          duties * SumFn([r \in proposals |->
                                             ValueOf(r.propose_earned_reward)])

\* what the two comprehensive calculators are compared on: the window bounds,
\* and per operator, in the order of the list, the reward components, the
\* per-duty efficiencies and the overall efficiency
ComparedFields ==
    {"operator", "validator_count",
     "attester_actual_reward", "proposer_actual_reward", "sync_actual_reward",
     "attester_ideal_reward", "proposer_ideal_reward", "sync_ideal_reward",
     "total_actual_reward", "total_ideal_reward",
     "overall_efficiency", "attester_efficiency", "proposer_efficiency",
     "sync_efficiency", "latest_epoch", "start_epoch", "epochs_analyzed"}

Compared(reply) ==
    IF reply.status = 200
    THEN [status |-> 200,
          results |-> [i \in DOMAIN reply.results |->
                          [f \in ComparedFields |-> reply.results[i][f]]]]
    ELSE [status |-> reply.status]

OneDayReplies(limit) ==
    {Compared(r) : r \in TheoreticalPerformanceAllReplies(store, limit)}
NDayReplies(days, limit) ==
    {Compared(r) : r \in TheoreticalPerformanceAllExtendedReplies(store, days, limit)}

IsOneDayRequest ==
    \/ response.endpoint = "theoretical_performance_all"
    \/ /\ response.endpoint = "theoretical_performance_all/extended"
       /\ response.status = 200
       /\ response.requested_epochs = EPOCHS_PER_DAY

-----------------------------------------------------------------------------
(* Epoch window policies: properties *)

TrackedEpochs == {r.epoch : r \in {x \in store : x.val_nos_name # SqlNull}}
StoreLatest == CHOOSE e \in TrackedEpochs : \A f \in TrackedEpochs : f <= e
StoreMin == CHOOSE e \in TrackedEpochs : \A f \in TrackedEpochs : e <= f
StoreAvailable == StoreLatest - StoreMin + 1

StrictEndpoints == {"below_threshold", "theoretical_performance/extended"}
ClampEndpoints == {"theoretical_performance", "theoretical_performance_all",
                   "theoretical_performance_all/extended", "below_threshold/extended"}

IsInsufficientReply == "error" \in DOMAIN response

\* the epochs a request asked for: a day is 225 epochs, and below_threshold
\* always asks for one day
RequestedEpochs ==
    IF ~IsInsufficientReply THEN response.requested_epochs
    ELSE IF response.endpoint = "below_threshold" THEN 225
    ELSE response.days_requested * 225

\* history shorter than the request
TooShort ==
    TrackedEpochs # {} /\ StoreLatest - RequestedEpochs + 1 < StoreMin

\* h is x / y * 100 rounded to two decimals, in hundredths
IsRoundedPercent(h, x, y) ==
    /\ 2 * (h * y - 10000 * x) <= y
    /\ 2 * (10000 * x - h * y) <= y

\* C9: under the strict policy a request whose window starts before the first
\* available epoch gets the insufficient-data reply and no list, with
\* epochs_requested = days * 225, epochs_available = latest - min + 1 and
\* data_completeness_percentage their ratio in percent rounded to two
\* decimals; 7 days over 500 epochs give 1575, 500 and 31.75
C9_StrictWindow ==
    (response.endpoint \in StrictEndpoints /\ response.status = 200 /\ TooShort) =>
        /\ IsInsufficientReply
        /\ "results" \notin DOMAIN response
        /\ response.epochs_requested = RequestedEpochs
        /\ response.epochs_available = StoreAvailable
        /\ IsRoundedPercent(response.data_completeness_percentage,
                            StoreAvailable, RequestedEpochs)
        /\ (RequestedEpochs = 7 * 225 /\ StoreAvailable = 500) =>
              /\ response.epochs_requested = 1575
              /\ response.epochs_available = 500
              /\ response.data_completeness_percentage = 3175

\* seven days are asked of a table with 500 epochs of history
C9_Witness ==
    /\ response.endpoint = "theoretical_performance/extended"
    /\ IsInsufficientReply
    /\ response.days_requested = 7 /\ StoreAvailable = 500

\* C10: under the clamp policy a request whose window starts before the first
\* available epoch never gets the insufficient-data reply; it proceeds from
\* start_epoch = min_available_epoch with the number of epochs reduced to
\* latest - min + 1
C10_ClampWindow ==
    response.endpoint \in ClampEndpoints =>
        /\ ~IsInsufficientReply
        /\ (response.status = 200 /\ TooShort) =>
              /\ response.start_epoch = StoreMin
              /\ response.epochs = StoreAvailable
              /\ \A x \in Range(response.results) :
                    /\ x.start_epoch = StoreMin
                    /\ "epochs_analyzed" \in DOMAIN x => x.epochs_analyzed = StoreAvailable

\* seven days are asked of a table with 500 epochs of history and a list of
\* operators analysed over 500 epochs comes back
C10_Witness ==
    /\ response.endpoint = "theoretical_performance_all/extended"
    /\ response.status = 200 /\ response.requested_epochs = 1575
    /\ response.epochs = 500 /\ response.start_epoch = 1
    /\ response.results # <<>>

-----------------------------------------------------------------------------
(* Relative score: properties *)

\* the operators a reply scores, each with its value and its relative score
Scored ==
    IF response.endpoint = "attestation_performance"
    THEN {[operator |-> x.operator, value |-> x.regular_performance_gwei,
           relative_score |-> x.relative_score] : x \in Range(response.results)}
    ELSE IF response.endpoint = "attestation_only"
    THEN {[operator |-> op, value |-> response.operator_performance[op],
           relative_score |-> response.operator_relative_scores[op]] :
             op \in DOMAIN response.operator_relative_scores}
    ELSE {}

\* the ranked operators: those with a validator counted at a positive performance
Ranked == {x \in Scored : x.value.sum > 0}
IsTop(x) == \A y \in Ranked : y.value.sum * x.value.cnt <= x.value.sum * y.value.cnt

\* C6: when some operator is ranked, every relative score is the operator's
\* value over the largest value times 100, the operator with the largest value
\* scores exactly 100 and every score lies in 0..100; when none is ranked the
\* reply is still produced, nothing is divided by zero and every score is 0
C6_RelativeScore ==
    /\ \A x \in Scored, t \in Ranked :
          IsTop(t) =>
             /\ t.relative_score.den > 0 /\ PctIs(t.relative_score, 100)
             /\ x.relative_score.den > 0
             /\ x.relative_score.num * t.value.sum * x.value.cnt
                   = x.value.sum * t.value.cnt * x.relative_score.den
             /\ x.relative_score.num >= 0
             /\ x.relative_score.num <= x.relative_score.den
    /\ (response.endpoint \in {"attestation_performance", "attestation_only"}
        /\ Ranked = {}) =>
          /\ response.status = 200
          /\ \A x \in Scored : x.relative_score.den > 0 /\ x.relative_score.num = 0

\* two operators are ranked with different values, and the lower scores 50
C6_Witness ==
    \E x, t \in Ranked :
        /\ IsTop(t) /\ ~IsTop(x)
        /\ PctIs(t.relative_score, 100) /\ PctIs(x.relative_score, 50)

-----------------------------------------------------------------------------
(* Errors of the nodeset endpoints: properties *)

NodesetEndpoints ==
    {"validators_down", "validators_down/extended", "below_threshold",
     "below_threshold/extended", "theoretical_performance",
     "theoretical_performance/extended", "theoretical_performance_all",
     "theoretical_performance_all/extended"}

\* C11: a nodeset request made while no tracked epoch exists fails with the
\* not-found error "No epoch data found" (status 404), and the caller receives
\* that status, not another one
C11_NoDataSurfaced ==
    (response.endpoint \in NodesetEndpoints /\ ~HasEpochData(store)) =>
        response.status = 404

-----------------------------------------------------------------------------
(* Corrected calculator: properties of its result *)

\* the rows a corrected reply was computed from
RepliedData ==
    CorrectedData(store, response.operator, response.start_epoch, response.end_epoch)

\* C12: when the operator has rows in the window but none of them is an
\* active-duty row, the corrected calculator returns a normal result with
\* performance 0 and its counts, never an error result
C12_ZeroActiveDuty ==
    (/\ response.endpoint = "corrected"
     /\ RepliedData # {}
     /\ \A r \in RepliedData : IsActiveDuty(r) = 0) =>
        /\ response.status = "ok"
        /\ response.corrected_theoretical_performance.num = 0
        /\ response.agg.active_duty_periods = 0
        /\ response.agg.pending_periods = Cardinality(RepliedData)

\* the records the mean is said to be taken over: active duty, attestation
\* happened, reward non-null and positive
PositiveRewardRows(grp) ==
    {r \in grp : /\ SuccessfulAttestation(r) = 1
                 /\ ~IsNull(r.att_earned_reward)
                 /\ r.att_earned_reward[1] > 0}

\* C13: in every normal result of the corrected calculator the average is the
\* mean of earned_reward over the active-duty records whose attestation happened
\* and whose reward is non-null and positive, max_possible_rewards is
\* active_duty_periods times that mean, and the performance is net_rewards over
\* that maximum, times 100.
C13_CorrectedDenominator ==
    (/\ response.endpoint = "corrected"
     /\ response.status = "ok"
     /\ PositiveRewardRows(RepliedData) # {}) =>
        LET P == PositiveRewardRows(RepliedData)
            s == SumFn([r \in P |-> r.att_earned_reward[1]])
            n == Cardinality(P)
            a == response.agg
        IN  /\ response.avg_reward_per_attestation.sum * n =
                   s * response.avg_reward_per_attestation.cnt
            /\ response.max_possible_rewards = (a.active_duty_periods * s) \div n
            /\ PctEq(response.corrected_theoretical_performance,
                     Pct(a.net_rewards * n, a.active_duty_periods * s))

-----------------------------------------------------------------------------
(* Corrected methodology: what a record that is not active duty adds *)

\* the three totals of the calculator's result, for a request that succeeds
CalculatorTotals(rows, op, start_epoch, end_epoch) ==
    LET r == CorrectedReply(rows, op, start_epoch, end_epoch)
    IN  <<r.agg.total_actual_rewards, r.agg.total_penalties, r.max_possible_rewards>>

CalculatorSucceeds(rows, op, start_epoch, end_epoch) ==
    CorrectedReply(rows, op, start_epoch, end_epoch).status = "ok"

\* the operators GET /theoretical_performance reports, and the totals of one
RankedOperators(rows) ==
    LET reply == CHOOSE r \in TheoreticalPerformanceReplies(rows, 100) : TRUE
    IN  IF reply.status = 200 THEN {x.operator : x \in Range(reply.results)} ELSE {}

EndpointTotals(rows, op) ==
    LET reply == CHOOSE r \in TheoreticalPerformanceReplies(rows, 100) : TRUE
        x == CHOOSE y \in Range(reply.results) : y.operator = op
    IN  <<x.total_actual_rewards, x.agg.total_penalties, x.total_theoretical_max_rewards>>

\* C14: a step that adds to the table a record whose status is not
\* active_ongoing, whatever its reward and penalty fields, leaves
\* total_actual_rewards, total_penalties and the theoretical maximum of every
\* operator unchanged, in the corrected calculator (over every window that holds
\* the record or not) and in GET /theoretical_performance.
C14_ActiveOnlyAccumulation ==
    [][(/\ store' # store
        /\ \A x \in store' \ store : x.val_status # "active_ongoing") =>
          \A op \in Operators :
             /\ \A w \in {<<499, 500>>, <<500, 500>>} :
                   CalculatorSucceeds(store, op, w[1], w[2]) =>
                      /\ CalculatorSucceeds(store', op, w[1], w[2])
                      /\ CalculatorTotals(store', op, w[1], w[2]) =
                            CalculatorTotals(store, op, w[1], w[2])
             /\ op \in RankedOperators(store) =>
                   /\ op \in RankedOperators(store')
                   /\ EndpointTotals(store', op) = EndpointTotals(store, op)]_vars

\* a pending record that carries a reward, a missed reward and a penalty sits
\* in the window next to one successful attestation, and the calculator reports
\* the attestation's 100 alone
C14_Witness ==
    /\ response.endpoint = "corrected"
    /\ response.status = "ok"
    /\ \E r \in RepliedData :
          /\ IsPending(r) = 1
          /\ r.att_earned_reward = Some(50) /\ r.att_penalty = Some(50)
    /\ response.agg.total_actual_rewards = 100
    /\ response.agg.total_penalties = 0
    /\ response.max_possible_rewards = 100

-----------------------------------------------------------------------------
(* Simple methodology: properties *)

IsBelowReply ==
    /\ response.endpoint \in {"below_threshold", "below_threshold/extended"}
    /\ response.status = 200
    /\ ~IsInsufficientReply

\* every duty record of one validator in the window of the reply: the rows of
\* the tracked validator that the status exclusion set leaves in
DutyRecords(x) ==
    {r \in store : /\ r.val_id = x.validator_id
                   /\ r.val_nos_name = Some(x.operator)
                   /\ r.epoch >= response.start_epoch
                   /\ r.epoch <= response.latest_epoch
                   /\ r.val_status \notin ExcludedStatuses}

-----------------------------------------------------------------------------
(* Operator rollups: properties *)

IsRollupReply ==
    /\ response.endpoint \in {"theoretical_performance",
                              "theoretical_performance/extended"}
    /\ response.status = 200
    /\ ~IsInsufficientReply

\* what one record adds to its validator's actual and ideal rewards under the
\* methodology of the endpoint that answered: net of penalties and over active
\* duty in theoretical_performance, plain sums in theoretical_performance/extended
RollupActual(r) ==
    IF response.endpoint = "theoretical_performance"
    THEN IF r.val_status = "active_ongoing"
         THEN ValueOf(r.att_earned_reward) - ValueOf(r.att_penalty) ELSE 0
    ELSE ValueOf(r.att_earned_reward)
RollupIdeal(r) ==
    IF response.endpoint = "theoretical_performance" /\ r.val_status # "active_ongoing"
    THEN 0
    ELSE ValueOf(r.att_earned_reward) + ValueOf(r.att_missed_reward)

RatioOrZero(a, b) == IF b > 0 THEN Pct(a, b) ELSE ZeroPct

\* C19: in every operator-level response operator_reward_percentage is the
\* totals-first value (the sum of the validators' actual over the sum of their
\* ideal, times 100) and avg_validator_reward_percentage is the arithmetic mean
\* of the validators' own percentages, each computed on its own.
C19_BothRollups ==
    IsRollupReply =>
        \A x \in Range(response.results) :
            LET recs == OperatorRecords(x)
                vals == {r.val_id : r \in recs}
                of(v) == {r \in recs : r.val_id = v}
                own(v) == RatioOrZero(SumFn([r \in of(v) |-> RollupActual(r)]),
                                      SumFn([r \in of(v) |-> RollupIdeal(r)]))
                total == SumPct([v \in vals |-> own(v)])
            IN  /\ PctEq(x.operator_reward_percentage,
                         RatioOrZero(SumFn([r \in recs |-> RollupActual(r)]),
                                     SumFn([r \in recs |-> RollupIdeal(r)])))
                /\ PctEq(x.avg_validator_reward_percentage,
                         Pct(total.num, total.den * Cardinality(vals)))

RankingEndpoints ==
    {"theoretical_performance", "theoretical_performance/extended",
     "theoretical_performance_all", "theoretical_performance_all/extended"}

\* the percentage an entry of a ranking reports
ReportedPercentage(x) ==
    IF response.endpoint \in {"theoretical_performance",
                               "theoretical_performance/extended"}
    THEN x.operator_reward_percentage
    ELSE x.overall_efficiency

\* C20: the list every operator-ranking endpoint returns is in non-increasing
\* order of the percentage it reports for each operator
\* (operator_reward_percentage, respectively overall_efficiency).
C20_RankingOrder ==
    (/\ response.endpoint \in RankingEndpoints
     /\ response.status = 200
     /\ ~IsInsufficientReply) =>
        \A i, j \in DOMAIN response.results :
            i < j => PctLeq(ReportedPercentage(response.results[j]),
                            ReportedPercentage(response.results[i]))

-----------------------------------------------------------------------------
(* Malformed rows: properties *)

\* C21: in every efficiency calculation a row whose fields fail type coercion
\* is skipped and the remaining rows are still aggregated and returned: the
\* request that met one bad row does not fail, and its list is the delivered
\* rows without the bad one.
C21_MalformedTolerance ==
    "malformed" \in DOMAIN response =>
        IF response.endpoint = "corrected"
        THEN response.status = "ok"
        ELSE /\ response.status = 200
             /\ response.results = RemoveAt(response.delivered, response.malformed)

-----------------------------------------------------------------------------
(* Requests and concurrent writes: properties *)

\* C22: a comprehensive-efficiency request computes its whole result from one
\* snapshot of the store: when rows are inserted between its queries, the
\* answer is an answer of the entire request evaluated on one of the tables the
\* request lived through (the one before an insertion or the one after it),
\* never a mixture.
C22_SnapshotConsistency ==
    request.step = "done" =>
        \E snapshot \in request.snapshots :
            response \in TheoreticalPerformanceAllReplies(snapshot, request.limit)

-----------------------------------------------------------------------------
(* Shared in-process state: properties *)

\* what loader_func() yields for a key on the files as they are
Fresh(key) ==
    IF key = "validator_data" THEN LoadFirst(CACHE_FILES)
    ELSE LoadFirst(ENS_NAMES_FILES)

\* C23: no read-only analytics request modifies shared in-process state: over
\* every step (an exit view, an operator-performance request with or without
\* a days limit, a nodeset efficiency request) each value held in the loader
\* cache and in the service cache is the value held before, or the content
\* just read from the files when the step reloaded it.
C23_NoSharedMutation ==
    [][/\ \A key \in DOMAIN cache' :
             \/ key \in DOMAIN cache /\ cache'[key] = cache[key]
             \/ cache'[key] = Fresh(key)
       /\ \/ service'.cache = service.cache
          \/ /\ FindCacheFile # <<>>
             /\ service'.cache = <<disk[FindCacheFile[1]][1].content>>]_vars

-----------------------------------------------------------------------------
(* Detector window size: properties *)

\* the reply of a detector request that ran its query
IsDetectorReply ==
    /\ response.endpoint \in {"validators_down", "validators_down/extended"}
    /\ response.status = 200

\* C24 as stated: the window K is within 2..10 and is 3 when the caller does
\* not supply it.
C24_DefaultThree ==
    IsDetectorReply =>
        /\ response.epochs_back \in EpochsBackLeast..EpochsBackMost
        /\ ("supplied" \notin DOMAIN response \/ response.supplied = SqlNull)
               => response.epochs_back = 3

\* C24: on /validators_down/extended the window K is the caller's epochs_back
\* when it is within 2..10, a request with a value outside 2..10 is rejected,
\* and K is 2 when the caller does not supply it; /validators_down takes no
\* window parameter and always uses K = 3.
C24_WindowSize ==
    /\ IsDetectorReply =>
          IF response.endpoint = "validators_down"
          THEN response.epochs_back = 3
          ELSE "supplied" \in DOMAIN response =>
                 /\ response.epochs_back \in EpochsBackLeast..EpochsBackMost
                 /\ response.supplied # SqlNull
                       => response.epochs_back = response.supplied[1]
                 /\ response.supplied = SqlNull => response.epochs_back = 2
    /\ (response.endpoint = "validators_down/extended"
          /\ "supplied" \in DOMAIN response
          /\ response.supplied # SqlNull
          /\ response.supplied[1] \notin EpochsBackLeast..EpochsBackMost)
         => response.status = 422

\* a request without epochs_back flags a validator that missed two epochs
C24_Witness ==
    /\ IsDetectorReply
    /\ response.endpoint = "validators_down/extended"
    /\ "supplied" \in DOMAIN response
    /\ response.supplied = SqlNull
    /\ response.results # <<>>

-----------------------------------------------------------------------------
(* Loader cache: properties *)

\* a load_validator_data call that answers from the cache
CachedReturn ==
    /\ response' # response
    /\ response'.endpoint = "load_validator_data"
    /\ ~response'.invoked

\* the cached value comes back only if the key is cached, its age is below the
\* TTL and no candidate file has a modification time above the recorded one
C25_OnlyIfValid ==
    [][CachedReturn =>
         /\ "validator_data" \in DOMAIN cache
         /\ "validator_data" \in DOMAIN cache_timestamps
         /\ now - cache_timestamps["validator_data"] < ValidatorDataTtl
         /\ "validator_data" \in DOMAIN file_mod_times
         /\ \A p \in Range(CACHE_FILES) :
               GetFileModTime(p) <= file_mod_times["validator_data"][p]]_vars

\* the first load after clear_cache invokes the loader
C25_AfterClear ==
    [][(response.endpoint = "clear_cache" /\ response' # response
          /\ response'.endpoint = "load_validator_data")
         => response'.invoked]_vars

\* C25: a load returns the cached value without invoking the loader only if
\* the key is cached, younger than the TTL and no candidate file has a newer
\* modification time than recorded at the last load; hence a load never
\* returns a value loaded before the latest modification (or first
\* appearance) of a candidate file: what a load that starts now answers from
\* the cache is what the files hold now.
C25_CacheFreshness ==
    [][CachedReturn => response'.value = LoadFirst(CACHE_FILES)]_vars

-----------------------------------------------------------------------------
(* Below-threshold selection: properties *)

\* the records of the window of the reply that carry an operator and a status
\* outside the exclusion set
SelectableRecords ==
    {r \in store : /\ r.epoch >= response.start_epoch
                   /\ r.epoch <= response.latest_epoch
                   /\ ~IsNull(r.val_nos_name)
                   /\ r.val_status \notin ExcludedStatuses}
\* the validators (with their operator) that have at least one such record
Selectable == {<<r.val_id, r.val_nos_name[1]>> : r \in SelectableRecords}
RecordsOf(k) ==
    {r \in SelectableRecords : r.val_id = k[1] /\ r.val_nos_name = Some(k[2])}
EarnedOf(k) ==
    SumFn([r \in RecordsOf(k) |->
              IF IsNull(r.att_earned_reward) THEN 0 ELSE r.att_earned_reward[1]])
MissedOf(k) ==
    SumFn([r \in RecordsOf(k) |->
              IF IsNull(r.att_missed_reward) THEN 0 ELSE r.att_missed_reward[1]])
\* reward percentage of k below, at, above the whole number n
BelowPercent(k, n) ==
    IF EarnedOf(k) + MissedOf(k) > 0
    THEN EarnedOf(k) * 100 < n * (EarnedOf(k) + MissedOf(k))
    ELSE 0 < n
\* reward percentage of a below the one of b
LowerPercent(a, b) ==
    LET ta == EarnedOf(a) + MissedOf(a)
        tb == EarnedOf(b) + MissedOf(b)
        na == IF ta > 0 THEN EarnedOf(a) ELSE 0
        nb == IF tb > 0 THEN EarnedOf(b) ELSE 0
        da == IF ta > 0 THEN ta ELSE 1
        db == IF tb > 0 THEN tb ELSE 1
    IN  na * db < nb * da
\* ascending by percentage, ties by operator, then by validator id
ListedBefore(a, b) ==
    \/ LowerPercent(a, b)
    \/ /\ ~LowerPercent(b, a)
       /\ \/ NameRank(a[2]) < NameRank(b[2])
          \/ a[2] = b[2] /\ a[1] < b[1]
BelowSelected == {k \in Selectable : BelowPercent(k, response.threshold)}
Listed ==
    [i \in DOMAIN response.results |->
        <<response.results[i].validator_id, response.results[i].operator>>]

\* C26: below_threshold and below_threshold/extended return exactly the
\* non-excluded, operator-assigned validators with at least one record in the
\* window whose reward percentage is strictly below the threshold (97 for
\* below_threshold and when none is given), in ascending order of percentage,
\* ties by operator and then by validator id, cut after limit entries.
C26_BelowThresholdSelection ==
    IsBelowReply =>
        /\ response.endpoint = "below_threshold" => response.threshold = 97
        /\ Len(response.results) = Min2(response.limit, Cardinality(BelowSelected))
        /\ \A i \in DOMAIN Listed : Listed[i] \in BelowSelected
        /\ \A i, j \in DOMAIN Listed : i < j => ListedBefore(Listed[i], Listed[j])
        /\ \A k \in BelowSelected \ Range(Listed) :
              \A i \in DOMAIN Listed : ListedBefore(Listed[i], k)

\* a reply cut after one entry: two validators of different operators are tied
\* below the threshold, a third validator sits exactly at the threshold
C26_Witness ==
    /\ IsBelowReply
    /\ response.limit = 1
    /\ Len(response.results) = 1
    /\ \E k \in BelowSelected \ Range(Listed) :
          /\ ~LowerPercent(Listed[1], k)
          /\ k[2] # Listed[1][2]
    /\ \E k \in Selectable :
          /\ ~BelowPercent(k, response.threshold)
          /\ BelowPercent(k, response.threshold + 1)

-----------------------------------------------------------------------------
(* Corrected methodology: attestation partition *)

\* the aggregates a reply reports, each with its attestation success rate
ReportedRates ==
    IF IsCorrectedOk
    THEN {[agg |-> response.agg, rate |-> response.attestation_success_rate]}
    ELSE IF IsPerformanceReply
    THEN {[agg |-> x.agg, rate |-> x.attestation_success_rate] :
             x \in Range(response.results)}
    ELSE {}

\* C27: in every aggregate of the corrected methodology (the calculator and GET
\* /theoretical_performance) successful_attestations + missed_attestations =
\* active_duty_periods, so attestation_success_rate lies within 0..100.
C27_AttestationPartition ==
    \A g \in ReportedRates :
        /\ g.agg.successful_attestations + g.agg.missed_attestations
              = g.agg.active_duty_periods
        /\ g.rate.den > 0
        /\ 0 <= g.rate.num
        /\ g.rate.num <= g.rate.den

\* an aggregate over a hit and a miss in active duty: one of two, 50 percent
C27_Witness ==
    \E g \in ReportedRates :
        /\ g.agg.successful_attestations = 1
        /\ g.agg.missed_attestations = 1
        /\ g.agg.active_duty_periods = 2
        /\ PctIs(g.rate, 50)

-----------------------------------------------------------------------------
(* Resolved window: properties *)

WindowEndpoints == StrictEndpoints \cup ClampEndpoints

\* a reply that carries a list
IsResolvedReply ==
    /\ response.endpoint \in WindowEndpoints
    /\ response.status = 200
    /\ ~IsInsufficientReply

\* the number of epochs analysed, where an entry reports it
ReportsEpochs(x) ==
    "epochs_analyzed" \in DOMAIN x \/ "total_epochs_analyzed" \in DOMAIN x
EpochsReported(x) ==
    IF "epochs_analyzed" \in DOMAIN x THEN x.epochs_analyzed
    ELSE x.total_epochs_analyzed

\* C28: in every successful result of a window-resolving endpoint, under the
\* strict and under the clamp policy, min_available_epoch <= start_epoch <=
\* latest_epoch, and the reported number of epochs analysed (epochs_analyzed,
\* total_epochs_analyzed) is latest_epoch - start_epoch + 1.
C28_ResolvedWindow ==
    IsResolvedReply =>
        \A x \in Range(response.results) :
            /\ StoreMin <= x.start_epoch
            /\ x.start_epoch <= x.latest_epoch
            /\ x.latest_epoch = StoreLatest
            /\ response.endpoint \notin {"below_threshold", "below_threshold/extended"}
                  => ReportsEpochs(x)
            /\ ReportsEpochs(x) =>
                  EpochsReported(x) = x.latest_epoch - x.start_epoch + 1

\* the strict endpoint answers a request for one day over a table that goes
\* back to epoch 1: the window is 276..500 and 225 epochs are reported
C28_Witness ==
    /\ IsResolvedReply
    /\ response.endpoint = "theoretical_performance/extended"
    /\ StoreMin = 1
    /\ response.results # <<>>
    /\ response.results[1].start_epoch = 276
    /\ response.results[1].latest_epoch = 500
    /\ response.results[1].total_epochs_analyzed = 225

-----------------------------------------------------------------------------
(* Service caches: properties *)

\* a request of one of the two services has been answered
ServiceReturn ==
    /\ response' # response
    /\ response'.endpoint \in {"operator_performance", "sync-committee"}

\* the parsed content of the highest-priority candidate that exists; what the
\* service answers when none exists
SelectedContent(endpoint) ==
    IF endpoint = "operator_performance"
    THEN IF FindCacheFile = <<>> THEN DefaultCache
         ELSE disk[FindCacheFile[1]][1].content
    ELSE IF FindDataFile = <<>> THEN EmptyDict
         ELSE disk[FindDataFile[1]][1].content

-----------------------------------------------------------------------------
(***************************************************************************)
(* Analytics: unique sessions of a day                                     *)
(***************************************************************************)
SessionsOn(d) == {submitted[i].session_id :
                     i \in {j \in DOMAIN submitted : submitted[j].date = d}}
SubmittedDates == {submitted[i].date : i \in DOMAIN submitted}

\* C30: after any sequence of add_event calls, for every date d the stored
\* daily_stats[d].unique_sessions is the number of distinct session ids that
\* submitted at least one event dated d.
C30_UniqueSessions ==
    \A d \in SubmittedDates :
        /\ d \in DOMAIN analytics_file.daily_stats
        /\ analytics_file.daily_stats[d].unique_sessions = Cardinality(SessionsOn(d))

====
